---- MODULE Spec2Model ----
(***************************************************************************)
(* State-machine model of the MTG Signal bot's lookup cache, usage ledger, *)
(* ban registry and suspicious-usage alerting (db/cache.py, db/usage.py,   *)
(* bot/alerts.py, bot/command.py, bot/scryfall.py).                        *)
(*                                                                         *)
(* Time.  time.time() is a float; the code truncates it with int() where   *)
(* it stores or compares row timestamps and uses it untruncated in         *)
(* get_cached and check_and_alert.  The model keeps a clock in ticks of    *)
(* 1/TicksPerSecond second: a float reading is the clock itself, int() is  *)
(* the integer division by TicksPerSecond.                                 *)
(***************************************************************************)
EXTENDS Integers, Sequences, FiniteSets, TLC

\* ------------------------------------------------------------- bounds
TicksPerSecond == 2
\* Wall-clock second at which the process starts (an epoch time, far from 0).
StartSecond == 200000
\* How many times the clock may advance in one behaviour.
MaxTicks == 3
\* How many usage events the storage-API runs append.
MaxEvents == 3
\* How much the bot is handed in one behaviour: a message counts for the
\* number of card references in it, and for one when it has none.
MaxLookups == 2
\* How many rows of one user the ledger may hold when the process starts,
\* counted below the alert threshold (SUSPICIOUS_THRESHOLD - 1 at most).
MaxBacklogGap == 2
\* How many times the clock may advance while the bot runs.
MaxBotTicks == 1
\* The longest message text parsed character by character, brackets apart.
MaxTextLen == 3
MaxReactions == 2

\* --------------------------------------------------- program constants
CACHE_TTL_SECONDS == 86400
PURGE_INTERVAL == 3600
TOTP_EXPIRY == 300
SUSPICIOUS_THRESHOLD == 20
SUSPICIOUS_WINDOW == 300
ALERT_COOLDOWN == 1800
SEARCH_LIMIT == 100

None == "None"

VARIABLES
    clock,            \* wall clock, in ticks
    ticks,            \* clock advances so far
    card_cache,       \* table card_cache: set of rows
    usage_log,        \* table usage_log: set of rows
    usage_seq,        \* sqlite_sequence of usage_log (AUTOINCREMENT)
    banned_users,     \* table banned_users: set of rows
    alert_cooldowns,  \* bot/alerts.py _alert_cooldowns: user -> last alert time
    owner_phone,      \* MTGCommand._owner_phone ("" when not configured)
    task,             \* per worker: the handle() coroutine's position and locals
    received,         \* what handle() was handed so far, counted as MaxLookups is
    replies,          \* messages the bot sent to users (c.send), in order
    notifications,    \* alerts handed to the signal sender, in order
    lastOp,           \* the last storage-API call and what it returned
    written,          \* cache key -> the last set_cached call not purged since
    logged,           \* the log_usage calls made, in order
    paged,            \* the get_usage_log call before the last one, if any
    ban_calls,        \* user -> the last ban_user or unban_user call on the user
    sweep,            \* _periodic_cache_purge: "sleep", "purge", "except" or "ended"
    pending_codes,    \* admin/auth.py _pending_codes: code -> entry, if pending
    code_calls,       \* code -> its last issue by request_code and what followed
    reactions         \* the reactions handle() was handed, with what it did

timeVars == <<clock, ticks, sweep>>
cacheVars == <<card_cache, written>>
usageVars == <<usage_log, usage_seq, logged, paged>>
authVars == <<pending_codes, code_calls>>
\* The admin panel's state: the ban table and the login codes.
banVars == <<banned_users, ban_calls, authVars>>
botVars == <<alert_cooldowns, owner_phone, task, received, replies, notifications,
            reactions>>
vars == <<clock, ticks, card_cache, usage_log, usage_seq, banned_users,
          alert_cooldowns, owner_phone, task, received, replies, notifications,
          lastOp, written, logged, paged, ban_calls, sweep, pending_codes,
          code_calls, reactions>>

\* ------------------------------------------------------------- time
Seconds(s) == s * TicksPerSecond

\* int(time.time()) of a float reading t (in ticks): whole seconds.
IntTime(t) == t \div TicksPerSecond

\* The clock advances by d ticks.
Tick(d) ==
    /\ ticks < MaxTicks
    /\ clock' = clock + d
    /\ ticks' = ticks + 1
    /\ UNCHANGED <<sweep, cacheVars, usageVars, banVars, botVars, lastOp>>

\* ------------------------------------------------------------- JSON
\* A JSON object is a function from its keys to values.  json.dumps writes
\* the members one after the other; json.loads builds the object back from
\* the member list.
JsonDumps(d) ==
    LET ks == DOMAIN d
        n == Cardinality(ks)
        order == CHOOSE f \in [1..n -> ks] :
                    \A i, j \in 1..n : i # j => f[i] # f[j]
    IN [i \in 1..n |-> <<order[i], d[order[i]]>>]

JsonLoads(s) ==
    [k \in {s[i][1] : i \in DOMAIN s} |->
        LET i == CHOOSE j \in DOMAIN s : s[j][1] = k IN s[i][2]]

EmptyDict == [k \in {} |-> k]
CardBolt == [object |-> "card", id |-> "c1"]
CardBear == [object |-> "card", id |-> "c2"]

\* Payloads the resolver can hand to the cache (response.json()).
Values == {CardBolt, CardBear, EmptyDict}

\* A Python "dict | None" result: <<>> is None, <<d>> is the dict d.
Absent == <<>>
Some(d) == <<d>>

\* ------------------------------------------------------------ db/cache.py
\* Keys are character strings, kept as sequences of characters so that the
\* LIKE of search_cache can be computed.
LowerChar(c) ==
    CASE c = "B" -> "b"
      [] c = "G" -> "g"
      [] c = "N" -> "n"
      [] OTHER -> c

\* str.lower()
Lower(s) == [i \in DOMAIN s |-> LowerChar(s[i])]

\* x or '' for an optional text
OrEmpty(x) == IF x = None THEN <<>> ELSE x

\* f"named:{name.lower()}:{set_code or ''}:{collector_number or ''}"
NamedKey(name, set_code, collector_number) ==
    <<"n", "a", "m", "e", "d", ":">> \o Lower(name) \o <<":">>
        \o OrEmpty(set_code) \o <<":">> \o OrEmpty(collector_number)

\* Card names as users type them.
NameBolt == <<"B">>
NameBear == <<"g">>

KeyBolt == NamedKey(NameBolt, None, None)
KeyBear == NamedKey(NameBear, None, None)
Keys == {KeyBolt, KeyBear}

CacheRow(key, data, t) ==
    [cache_key |-> key, data |-> JsonDumps(data), cached_at |-> IntTime(t)]

\* SELECT data, cached_at FROM card_cache WHERE cache_key = ?  (fetchone)
SelectCacheRow(cache, key) ==
    LET rows == {r \in cache : r.cache_key = key}
    IN IF rows = {} THEN Absent ELSE Some(CHOOSE r \in rows : TRUE)

\* get_cached with the TTL test off by one: a row exactly TTL old is stale.
get_cached_stale_at_ttl(cache, key, t) ==
    LET row == SelectCacheRow(cache, key)
    IN [cache |-> cache,
        result |->
            IF row = Absent THEN Absent
            ELSE IF t - Seconds(row[1].cached_at) >= Seconds(CACHE_TTL_SECONDS)
                 THEN Absent
                 ELSE Some(JsonLoads(row[1].data))]

\* get_cached that deletes the row it finds expired.
get_cached_delete_on_read(cache, key, t) ==
    LET row == SelectCacheRow(cache, key)
        stale == /\ row # Absent
                 /\ t - Seconds(row[1].cached_at) > Seconds(CACHE_TTL_SECONDS)
    IN [cache |-> IF stale THEN cache \ {row[1]} ELSE cache,
        result |->
            IF row = Absent \/ stale THEN Absent
            ELSE Some(JsonLoads(row[1].data))]

\* get_cached at float time t: the table after the call (it only SELECTs) and
\* the result: None when there is no row or the row is older than the TTL,
\* else the decoded payload.
get_cached(cache, key, t) ==
    LET row == SelectCacheRow(cache, key)
    IN [cache |-> cache,
        result |->
            IF row = Absent THEN Absent
            ELSE IF t - Seconds(row[1].cached_at) > Seconds(CACHE_TTL_SECONDS)
                 THEN Absent
                 ELSE Some(JsonLoads(row[1].data))]

\* INSERT into a table whose PRIMARY KEY is cache_key, without conflict
\* handling: what set_cached would do if it added the row next to the old one.
set_cached_insert_only(cache, key, data, t) ==
    cache \cup {CacheRow(key, data, t)}

\* INSERT OR IGNORE: what set_cached would do if the row already there won.
set_cached_keep_first(cache, key, data, t) ==
    IF \E r \in cache : r.cache_key = key THEN cache
    ELSE cache \cup {CacheRow(key, data, t)}

\* INSERT OR REPLACE INTO card_cache: the row with the same PRIMARY KEY goes,
\* the new row comes.
set_cached(cache, key, data, t) ==
    {r \in cache : r.cache_key # key} \cup {CacheRow(key, data, t)}

\* purge_expired that also deletes the row cached exactly at the cutoff.
purge_expired_at_cutoff(cache, t) ==
    LET cutoff == IntTime(t) - CACHE_TTL_SECONDS
        gone == {r \in cache : r.cached_at <= cutoff}
    IN [cache |-> cache \ gone, count |-> Cardinality(gone)]

\* DELETE FROM card_cache WHERE cached_at < cutoff; rowcount.
purge_expired(cache, t) ==
    LET cutoff == IntTime(t) - CACHE_TTL_SECONDS
        gone == {r \in cache : r.cached_at < cutoff}
    IN [cache |-> cache \ gone, count |-> Cardinality(gone)]

\* purge_key deleting every row of the key's kind ("named:", "rulings:").
purge_key_same_kind(cache, key) ==
    {r \in cache : SubSeq(r.cache_key, 1, 6) # SubSeq(key, 1, 6)}

\* DELETE FROM card_cache WHERE cache_key = ?
purge_key(cache, key) == {r \in cache : r.cache_key # key}

\* purge_all deleting a single row.
purge_all_one_row(cache) ==
    [cache |-> IF cache = {} THEN {} ELSE cache \ {CHOOSE r \in cache : TRUE},
     count |-> IF cache = {} THEN 0 ELSE 1]

\* DELETE FROM card_cache; rowcount.
purge_all(cache) == [cache |-> {}, count |-> Cardinality(cache)]

\* SELECT COUNT(*) FROM card_cache
get_cache_stats(cache) == [total_entries |-> Cardinality(cache)]

\* SQLite's LIKE: % matches any run of characters, _ any one character,
\* and letters match without regard to case.
RECURSIVE LikeMatch(_, _)
LikeMatch(pat, s) ==
    IF pat = <<>> THEN s = <<>>
    ELSE IF Head(pat) = "%"
         THEN LikeMatch(Tail(pat), s) \/ (s # <<>> /\ LikeMatch(pat, Tail(s)))
         ELSE /\ s # <<>>
              /\ Head(pat) = "_" \/ LowerChar(Head(pat)) = LowerChar(Head(s))
              /\ LikeMatch(Tail(pat), Tail(s))

\* The rows search_cache may return for a search string: those whose key is
\* LIKE %prefix%.
SearchMatches(cache, prefix) ==
    {r \in cache : LikeMatch(<<"%">> \o prefix \o <<"%">>, r.cache_key)}

Min(a, b) == IF a < b THEN a ELSE b

\* ... LIMIT 100 without ORDER BY: any SEARCH_LIMIT of the matching rows,
\* each as {cache_key, cached_at}.  The set of results the query may give.
search_cache(cache, prefix) ==
    LET m == SearchMatches(cache, prefix)
        n == Min(SEARCH_LIMIT, Cardinality(m))
    IN {{[cache_key |-> r.cache_key, cached_at |-> r.cached_at] : r \in s} :
            s \in {x \in SUBSET m : Cardinality(x) = n}}

\* Search strings the admin page is given.
SearchStrings == {<<"b">>, <<"N", ":">>, <<"_", ":">>}

\* ---------------------------------------------------------- admin/auth.py
\* The codes generate_totp draws here (secrets.randbelow: any of them, also
\* one drawn before), and a code it never draws.
Codes == {"000001", "000002"}
NeverDrawn == "999999"

\* A submitted form field: its characters, a run of characters other than
\* white space being one element.
Strip(s) ==
    LET keep == {i \in DOMAIN s : s[i] # " "}
    IN IF keep = {} THEN <<>>
       ELSE SubSeq(s, CHOOSE i \in keep : \A j \in keep : i <= j,
                      CHOOSE i \in keep : \A j \in keep : j <= i)

\* phone.strip() != owner_phone, negated.
IsOwner(phone, owner) == Strip(phone) = <<owner>>

\* verify_code that reads the entry and leaves it pending.
verify_code_keeping(pending, code, t) ==
    IF code \notin DOMAIN pending \/ pending[code] = Absent
    THEN [pending |-> pending, ok |-> FALSE]
    ELSE [pending |-> pending, ok |-> ~(t > pending[code][1].expires)]

\* entry = _pending_codes.pop(code, None); None: False; time.time() >
\* entry["expires"]: False; else True.
verify_code(pending, code, t) ==
    IF code \notin DOMAIN pending \/ pending[code] = Absent
    THEN [pending |-> pending, ok |-> FALSE]
    ELSE [pending |-> [pending EXCEPT ![code] = Absent],
          ok |-> ~(t > pending[code][1].expires)]

\* What login_submit answers: the verify page with its one message.
VerifyPage == "A code has been sent if that number is registered."

\* login_submit answering a number that is not the owner's with an error.
login_response_telling(phone, owner) ==
    IF IsOwner(phone, owner) THEN VerifyPage ELSE "That number is not registered."

login_response(phone, owner) == VerifyPage

\* ------------------------------------------------------------ db/usage.py
Users == {"u1", "u2"}

\* user_phone: a number or None.  PhoneRank is the order MAX() sees: SQLite
\* compares the texts, and MAX skips NULL.
Phones == {None, "+61400000001", "+61400000002"}
PhoneRank(p) ==
    CASE p = None -> 0
      [] p = "+61400000001" -> 1
      [] p = "+61400000002" -> 2

\* The number a user's messages carry (source_number), None when they carry
\* none.
PhoneOf(u) == IF u = "u1" THEN "+61400000001" ELSE None

\* MAX(user_phone) over a group's rows: NULL when every phone is NULL.
MaxPhone(ps) == CHOOSE p \in ps : \A q \in ps : PhoneRank(q) <= PhoneRank(p)

UsageRow(id, user_uuid, user_phone, query, t) ==
    [id |-> id, user_uuid |-> user_uuid, user_phone |-> user_phone,
     query |-> query, timestamp |-> IntTime(t)]

\* log_usage keeping one row per user (INSERT OR REPLACE on the user).
log_usage_one_row_per_user(log, seq, user_uuid, user_phone, query, t) ==
    [log |-> {r \in log : r.user_uuid # user_uuid}
                \cup {UsageRow(seq + 1, user_uuid, user_phone, query, t)},
     seq |-> seq + 1]

\* INSERT INTO usage_log (...): the row gets the next AUTOINCREMENT id.
log_usage(log, seq, user_uuid, user_phone, query, t) ==
    [log |-> log \cup {UsageRow(seq + 1, user_uuid, user_phone, query, t)},
     seq |-> seq + 1]

\* get_user_lookup_count leaving out the event stamped exactly at the cutoff.
get_user_lookup_count_after_cutoff(log, user_uuid, window_seconds, t) ==
    LET cutoff == IntTime(t) - window_seconds
    IN Cardinality({r \in log : r.user_uuid = user_uuid /\ r.timestamp > cutoff})

\* SELECT COUNT(*) FROM usage_log WHERE user_uuid = ? AND timestamp >= cutoff
get_user_lookup_count(log, user_uuid, window_seconds, t) ==
    LET cutoff == IntTime(t) - window_seconds
    IN Cardinality({r \in log : r.user_uuid = user_uuid /\ r.timestamp >= cutoff})

\* The sequences that list every element of the set s once.
Orderings(s) ==
    {f \in [1..Cardinality(s) -> s] :
        \A i, j \in 1..Cardinality(s) : i # j => f[i] # f[j]}

\* GROUP BY user_uuid over the rows WHERE timestamp >= cutoff, one group row
\* per user that has such rows.
UsageGroups(log, window_seconds, t) ==
    LET cutoff == IntTime(t) - window_seconds
        rows == {r \in log : r.timestamp >= cutoff}
    IN {[user_uuid |-> u,
         user_phone |-> MaxPhone({r.user_phone : r \in {x \in rows : x.user_uuid = u}}),
         lookup_count |-> Cardinality({r \in rows : r.user_uuid = u})] :
            u \in {r.user_uuid : r \in rows}}

\* get_suspicious_users keeping only the groups above the threshold.
get_suspicious_users_above(log, threshold, window_seconds, t) ==
    LET kept == {g \in UsageGroups(log, window_seconds, t) :
                    g.lookup_count > threshold}
    IN {s \in Orderings(kept) :
            \A i, j \in DOMAIN s :
                i < j => s[i].lookup_count >= s[j].lookup_count}

\* get_suspicious_users: ... HAVING COUNT(*) >= threshold ORDER BY lookup_count
\* DESC.  The order among equal counts is SQLite's to choose: the set of the
\* lists the query may return.
get_suspicious_users(log, threshold, window_seconds, t) ==
    LET kept == {g \in UsageGroups(log, window_seconds, t) :
                    g.lookup_count >= threshold}
    IN {s \in Orderings(kept) :
            \A i, j \in DOMAIN s :
                i < j => s[i].lookup_count >= s[j].lookup_count}

\* The sequences the store may answer for ORDER BY timestamp DESC: every
\* row of the set once, a later second never after an earlier one; the order
\* of rows of the same second is not defined by the statement.
TimestampDescOrders(rows) ==
    {o \in Orderings(rows) :
        \A i, j \in DOMAIN o : i < j => o[i].timestamp >= o[j].timestamp}

\* get_usage_log: SELECT COUNT(*) ... {where}; SELECT * ... {where} ORDER BY
\* timestamp DESC LIMIT per_page OFFSET (page - 1) * per_page.  The answers
\* the call may give: (rows, total).
get_usage_log(log, page, per_page, user_uuid) ==
    LET matching == IF user_uuid # None /\ user_uuid # ""
                    THEN {r \in log : r.user_uuid = user_uuid} ELSE log
        total == Cardinality(matching)
        offset == IF (page - 1) * per_page < 0 THEN 0 ELSE (page - 1) * per_page
    IN {[rows |-> SubSeq(o, offset + 1, Min(offset + per_page, total)),
         total |-> total] : o \in TimestampDescOrders(matching)}

\* SELECT 1 FROM banned_users WHERE user_uuid = ?
is_banned(banned, user_uuid) == \E r \in banned : r.user_uuid = user_uuid

\* ban_user with a plain INSERT into a table without the primary key.
ban_user_insert(banned, user_uuid, reason, t) ==
    banned \cup {[user_uuid |-> user_uuid, banned_at |-> IntTime(t), reason |-> reason]}

\* INSERT OR REPLACE INTO banned_users (user_uuid, banned_at, reason)
ban_user(banned, user_uuid, reason, t) ==
    {r \in banned : r.user_uuid # user_uuid}
        \cup {[user_uuid |-> user_uuid, banned_at |-> IntTime(t), reason |-> reason]}

\* unban_user with a DELETE that has no WHERE clause.
unban_user_everyone(banned, user_uuid) == {}

\* DELETE FROM banned_users WHERE user_uuid = ?
unban_user(banned, user_uuid) == {r \in banned : r.user_uuid # user_uuid}

\* SELECT user_uuid, banned_at, reason FROM banned_users ORDER BY banned_at
\* DESC: the lists the call may return, the order of bans of the same second
\* being the store's.
get_banned_users(banned) ==
    {o \in Orderings(banned) :
        \A i, j \in DOMAIN o : i < j => o[i].banned_at >= o[j].banned_at}

\* ---- the cache API, one call per step; lastOp keeps the call and its result
ApiCall(op, arg, result) ==
    lastOp' = [op |-> op, arg |-> arg, result |-> result, at |-> clock]

SetCached(key, data) ==
    /\ card_cache' = set_cached(card_cache, key, data, clock)
    /\ written' = [written EXCEPT ![key] =
            Some([data |-> data, at |-> clock,
                  over |-> \E r \in card_cache : r.cache_key = key])]
    /\ ApiCall("set_cached", key, None)
    /\ UNCHANGED <<timeVars, usageVars, banVars, botVars>>

GetCached(key) ==
    LET r == get_cached(card_cache, key, clock)
    IN /\ card_cache' = r.cache
       /\ ApiCall("get_cached", key, r.result)
       /\ UNCHANGED <<timeVars, written, usageVars, banVars, botVars>>

PurgeExpired ==
    LET r == purge_expired(card_cache, clock)
    IN /\ card_cache' = r.cache
       /\ ApiCall("purge_expired", None, r.count)
       /\ UNCHANGED <<timeVars, written, usageVars, banVars, botVars>>

PurgeKey(key) ==
    /\ card_cache' = purge_key(card_cache, key)
    /\ written' = [written EXCEPT ![key] = Absent]
    /\ ApiCall("purge_key", key, None)
    /\ UNCHANGED <<timeVars, usageVars, banVars, botVars>>

PurgeAll ==
    LET r == purge_all(card_cache)
    IN /\ card_cache' = r.cache
       /\ written' = [k \in Keys |-> Absent]
       /\ ApiCall("purge_all", None, r.count)
       /\ UNCHANGED <<timeVars, usageVars, banVars, botVars>>

SearchCache(prefix) ==
    /\ \E res \in search_cache(card_cache, prefix) :
            ApiCall("search_cache", prefix, res)
    /\ UNCHANGED <<timeVars, cacheVars, usageVars, banVars, botVars>>

GetCacheStats ==
    /\ ApiCall("get_cache_stats", None, get_cache_stats(card_cache))
    /\ UNCHANGED <<timeVars, cacheVars, usageVars, banVars, botVars>>

\* ---- _periodic_cache_purge: sleep an interval, purge, again
\* Rows older than this second are stale at every reading of the clock.
OldestSecond == StartSecond - CACHE_TTL_SECONDS - 1

Older(second) ==
    IF second - PURGE_INTERVAL < OldestSecond THEN OldestSecond
    ELSE second - PURGE_INTERVAL

\* asyncio.sleep(interval_seconds) returns: an interval has passed.  Past
\* MaxTicks intervals the clock's reading is kept and every stored time is
\* made an interval older instead: the code compares stored times with the
\* clock only (get_cached, purge_expired), and a time before OldestSecond is
\* as good as OldestSecond to it.
SweepWake ==
    /\ sweep = "sleep"
    /\ sweep' = "purge"
    /\ IF ticks < MaxTicks
       THEN /\ clock' = clock + Seconds(PURGE_INTERVAL)
            /\ ticks' = ticks + 1
            /\ UNCHANGED cacheVars
       ELSE /\ card_cache' =
                    {[r EXCEPT !.cached_at = Older(@)] : r \in card_cache}
            /\ written' = [k \in Keys |->
                    IF written[k] = Absent THEN Absent
                    ELSE Some([written[k][1] EXCEPT
                                !.at = Seconds(Older(IntTime(@)))])]
            /\ UNCHANGED <<clock, ticks>>
    /\ UNCHANGED <<usageVars, banVars, botVars, lastOp>>

\* await purge_expired() returns.
SweepPurge ==
    LET r == purge_expired(card_cache, clock)
    IN /\ sweep = "purge"
       /\ sweep' = "sleep"
       /\ card_cache' = r.cache
       /\ UNCHANGED <<clock, ticks, written, usageVars, banVars, botVars, lastOp>>

\* The loop with the try/except around the purge left out: the exception
\* ends the task.
after_purge_raised_uncaught == "ended"

\* try: await purge_expired() / except Exception: the handler is entered.
after_purge_raised == "except"

\* await purge_expired() raises (the store is locked, the disk is full).
SweepPurgeFails ==
    /\ sweep = "purge"
    /\ sweep' = after_purge_raised
    /\ UNCHANGED <<clock, ticks, cacheVars, usageVars, banVars, botVars, lastOp>>

\* logger.exception("Cache purge failed"); the loop goes on to the sleep.
SweepExcept ==
    /\ sweep = "except"
    /\ sweep' = "sleep"
    /\ UNCHANGED <<clock, ticks, cacheVars, usageVars, banVars, botVars, lastOp>>

\* A lookup of the running bot stores a card (get_card_by_name: set_cached).
SweepCacheSet(key, data) ==
    /\ card_cache' = set_cached(card_cache, key, data, clock)
    /\ written' = [written EXCEPT ![key] =
            Some([data |-> data, at |-> clock,
                  over |-> \E r \in card_cache : r.cache_key = key])]
    /\ UNCHANGED <<timeVars, usageVars, banVars, botVars, lastOp>>

\* ---- the usage API, one call per step
LogUsage(user_uuid, user_phone, query) ==
    LET r == log_usage(usage_log, usage_seq, user_uuid, user_phone, query, clock)
    IN /\ Len(logged) < MaxEvents
       /\ usage_log' = r.log
       /\ usage_seq' = r.seq
       /\ logged' = Append(logged,
            [user_uuid |-> user_uuid, at |-> clock, banned_on_arrival |-> FALSE])
       /\ ApiCall("log_usage", user_uuid, None)
       /\ UNCHANGED <<timeVars, cacheVars, banVars, botVars, paged>>

GetUserLookupCount(user_uuid, window_seconds) ==
    /\ ApiCall("get_user_lookup_count",
               [user_uuid |-> user_uuid, window_seconds |-> window_seconds],
               get_user_lookup_count(usage_log, user_uuid, window_seconds, clock))
    /\ UNCHANGED <<timeVars, cacheVars, usageVars, banVars, botVars>>

GetSuspiciousUsers(threshold, window_seconds) ==
    /\ \E res \in get_suspicious_users(usage_log, threshold, window_seconds, clock) :
            ApiCall("get_suspicious_users",
                    [threshold |-> threshold, window_seconds |-> window_seconds],
                    res)
    /\ UNCHANGED <<timeVars, cacheVars, usageVars, banVars, botVars>>

GetUsageLog(page, per_page, user_uuid) ==
    /\ \E res \in get_usage_log(usage_log, page, per_page, user_uuid) :
            ApiCall("get_usage_log",
                    [page |-> page, per_page |-> per_page, user_uuid |-> user_uuid],
                    res)
    /\ paged' = IF lastOp.op = "get_usage_log"
                THEN Some([arg |-> lastOp.arg, result |-> lastOp.result])
                ELSE paged
    /\ UNCHANGED <<timeVars, cacheVars, usage_log, usage_seq, logged, banVars,
                   botVars>>

\* ---- the ban API, one call per step
IsBanned(user_uuid) ==
    /\ ApiCall("is_banned", user_uuid, is_banned(banned_users, user_uuid))
    /\ UNCHANGED <<timeVars, cacheVars, usageVars, banVars, botVars>>

BanUser(user_uuid, reason) ==
    /\ banned_users' = ban_user(banned_users, user_uuid, reason, clock)
    /\ ban_calls' = [ban_calls EXCEPT ![user_uuid] =
            Some([op |-> "ban_user", reason |-> reason, at |-> clock,
                  over |-> {r \in banned_users : r.user_uuid = user_uuid}])]
    /\ ApiCall("ban_user", [user_uuid |-> user_uuid, reason |-> reason], None)
    /\ UNCHANGED <<timeVars, cacheVars, usageVars, botVars, authVars>>

UnbanUser(user_uuid) ==
    /\ banned_users' = unban_user(banned_users, user_uuid)
    /\ ban_calls' = [ban_calls EXCEPT ![user_uuid] =
            Some([op |-> "unban_user", reason |-> None, at |-> clock,
                  over |-> {r \in banned_users : r.user_uuid = user_uuid}])]
    /\ ApiCall("unban_user", user_uuid, None)
    /\ UNCHANGED <<timeVars, cacheVars, usageVars, botVars, authVars>>

GetBannedUsers ==
    /\ \E res \in get_banned_users(banned_users) :
            ApiCall("get_banned_users", None, res)
    /\ UNCHANGED <<timeVars, cacheVars, usageVars, banVars, botVars>>

\* ---- the admin panel's ban and unban forms (routes.py), while the bot runs
BanSubmit(user_uuid, reason) ==
    /\ banned_users' = ban_user(banned_users, user_uuid, reason, clock)
    /\ UNCHANGED <<timeVars, cacheVars, usageVars, botVars, lastOp, ban_calls,
                   authVars>>

UnbanSubmit(user_uuid) ==
    /\ is_banned(banned_users, user_uuid)
    /\ banned_users' = unban_user(banned_users, user_uuid)
    /\ UNCHANGED <<timeVars, cacheVars, usageVars, botVars, lastOp, ban_calls,
                   authVars>>

\* --------------------------------------------------- bot/command.py, alerts.py
\* The tasks that run MTGCommand.handle concurrently on the event loop.
Workers == {1, 2}

OwnerPhone == "+61400000000"

\* A message: what its text is (empty; "/help"; text without a card
\* reference; text with [[...]] references, given by the names inside the
\* brackets in order) and who sent it.
Message(kind, cards, uuid, number) ==
    [kind |-> kind, cards |-> cards, source_uuid |-> uuid, source_number |-> number]

Messages ==
    {Message(k, <<>>, "u1", PhoneOf("u1")) : k \in {"empty", "help", "chat"}}
    \cup {Message("cards", c, "u1", PhoneOf("u1")) :
            c \in {<<NameBolt>>, <<NameBolt, NameBear>>}}
    \cup {Message("cards", <<NameBear>>, "u2", PhoneOf("u2"))}

\* _parse_single for a bare name: no flag, no set, no collector number.
ParseSingle(raw) ==
    [raw |-> raw, flag |-> None, name |-> raw, set_code |-> None,
     collector_number |-> None]

\* parse_queries: one CardQuery per [[...]] of the text, in the text's order.
parse_queries(m) ==
    IF m.kind = "cards" THEN [i \in DOMAIN m.cards |-> ParseSingle(m.cards[i])]
    ELSE <<>>

\* What api.scryfall.com answers for a name when it answers with a card.
ResolverCard(name) == IF Lower(name) = Lower(NameBolt) THEN CardBolt ELSE CardBear

IdleTask ==
    [pc |-> "idle", user_uuid |-> None, user_phone |-> None, queries |-> <<>>,
     i |-> 0, data |-> Absent, now |-> 0, banned_on_arrival |-> FALSE,
     row_id |-> 0, sent |-> 0]

\* The query the task is working on, and its cache key.
Query(w) == task[w].queries[task[w].i]
QueryKey(w) == NamedKey(Query(w).name, Query(w).set_code, Query(w).collector_number)

\* if cached: -- None and the empty dict are both false.
Truthy(opt) == opt # Absent /\ DOMAIN opt[1] # {}

\* _alert_cooldowns.get(user_uuid, 0)
LastAlert(cooldowns, user_uuid) ==
    IF user_uuid \in DOMAIN cooldowns THEN cooldowns[user_uuid] ELSE 0

\* _alert_cooldowns[user_uuid] = now
SetLastAlert(cooldowns, user_uuid, now) ==
    [u \in DOMAIN cooldowns \cup {user_uuid} |->
        IF u = user_uuid THEN now ELSE cooldowns[u]]

\* check_and_alert's cooldown test read the wrong way round at the boundary.
in_cooldown_through_boundary(cooldowns, user_uuid, now) ==
    now - LastAlert(cooldowns, user_uuid) <= Seconds(ALERT_COOLDOWN)

\* if now - last_alert < ALERT_COOLDOWN: return
in_cooldown(cooldowns, user_uuid, now) ==
    now - LastAlert(cooldowns, user_uuid) < Seconds(ALERT_COOLDOWN)

\* The threshold test letting a count of exactly the threshold pass unnoticed.
below_threshold_or_at(count) == count <= SUSPICIOUS_THRESHOLD

\* if count < SUSPICIOUS_THRESHOLD: return
below_threshold(count) == count < SUSPICIOUS_THRESHOLD

\* The loop of handle going from one query to the next without the sleep.
Advance_unpaced(w, tk) ==
    IF tk.i < Len(tk.queries)
    THEN [tk EXCEPT !.pc = "get", !.i = tk.i + 1, !.data = Absent, !.now = 0,
                    !.row_id = 0, !.sent = 0]
    ELSE IdleTask

\* The loop of handle moves on: for i, query in enumerate(queries) takes the
\* next query of the message, or the loop ends; before every query but the
\* first the task sleeps (if i > 0: await asyncio.sleep(BETWEEN_CARD_DELAY)).
Advance(w, tk) ==
    IF tk.i < Len(tk.queries)
    THEN [tk EXCEPT !.pc = IF tk.i = 0 THEN "get" ELSE "pace", !.i = tk.i + 1,
                    !.data = Absent, !.now = 0, !.row_id = 0, !.sent = 0]
    ELSE IdleTask

\* c.send(...) by the task w.
Send(w, reply) == replies' = Append(replies, reply)

Reply(w, kind) ==
    [to |-> task[w].user_uuid, kind |-> kind,
     query |-> IF task[w].i = 0 THEN <<>> ELSE Query(w).raw,
     banned_on_arrival |-> task[w].banned_on_arrival]

\* The clock advances while the bot runs.  The advances explored are minutes
\* long and a handling lasts seconds (the HTTP timeout is 10 s), so they fall
\* between handlings.
BotTick(d) ==
    /\ \A w \in Workers : task[w].pc = "idle"
    /\ ticks < MaxBotTicks
    /\ Tick(d)

\* cache_purge and cache_purge_all of the admin panel: purge, then redirect.
CachePurgeSubmit(key) ==
    /\ card_cache' = purge_key(card_cache, key)
    /\ written' = [written EXCEPT ![key] = Absent]
    /\ UNCHANGED <<timeVars, usageVars, banVars, botVars, lastOp>>

CachePurgeAllSubmit ==
    /\ card_cache' = purge_all(card_cache).cache
    /\ written' = [k \in Keys |-> Absent]
    /\ UNCHANGED <<timeVars, usageVars, banVars, botVars, lastOp>>

\* The admin purges the cache while the bot runs; explored between handlings
\* and when there is a row to purge.
BotCachePurge ==
    /\ owner_phone # ""
    /\ \A w \in Workers : task[w].pc = "idle"
    /\ card_cache # {}
    /\ \/ \E k \in {r.cache_key : r \in card_cache} : CachePurgeSubmit(k)
       \/ CachePurgeAllSubmit

\* main serves the admin panel only when OWNER_PHONE_NUMBER is set.  The
\* admin bans a user at any moment of the bot's run.
BotBan(user_uuid) ==
    /\ owner_phone # ""
    /\ ~is_banned(banned_users, user_uuid)
    /\ BanSubmit(user_uuid, None)

\* The admin lifts a ban while the bot runs; explored between handlings.
BotUnban(user_uuid) ==
    /\ owner_phone # ""
    /\ \A w \in Workers : task[w].pc = "idle"
    /\ UnbanSubmit(user_uuid)

\* The sender told apart by the number when the uuid is missing.
SenderId_by_number(m) ==
    IF m.source_uuid # None THEN m.source_uuid
    ELSE IF m.source_number # None THEN m.source_number ELSE "unknown"

\* user_uuid = getattr(c.message, "source_uuid", None) or "unknown"
SenderId(m) == IF m.source_uuid = None THEN "unknown" ELSE m.source_uuid

Cost(m) == IF Len(m.cards) = 0 THEN 1 ELSE Len(m.cards)

\* handle, up to its first await: the text tests, parse_queries, the sender.
\* The tasks are alike: a message goes to the first one that is free.
Receive(w, m) ==
    /\ task[w].pc = "idle"
    /\ \A v \in Workers : v < w => task[v].pc # "idle"
    /\ received + Cost(m) <= MaxLookups
    /\ received' = received + Cost(m)
    /\ LET uuid == SenderId(m)
           onArrival == is_banned(banned_users, uuid)
       IN \/ /\ m.kind = "empty" \/ (m.kind # "help" /\ parse_queries(m) = <<>>)
             /\ UNCHANGED <<task, replies>>
          \/ /\ m.kind = "help"
             /\ Send(w, [to |-> uuid, kind |-> "help", query |-> <<>>,
                         banned_on_arrival |-> onArrival])
             /\ UNCHANGED task
          \/ /\ m.kind # "empty" /\ m.kind # "help" /\ parse_queries(m) # <<>>
             /\ task' = [task EXCEPT ![w] =
                    [IdleTask EXCEPT !.pc = "ban_check", !.user_uuid = uuid,
                                     !.user_phone = m.source_number,
                                     !.queries = parse_queries(m),
                                     !.banned_on_arrival = onArrival]]
             /\ UNCHANGED replies
    /\ UNCHANGED <<timeVars, cacheVars, usageVars, banVars, alert_cooldowns,
                   owner_phone, notifications, lastOp,
                   reactions>>

\* if await is_banned(user_uuid): return
BanCheck(w) ==
    /\ task[w].pc = "ban_check"
    /\ task' = [task EXCEPT ![w] =
            IF is_banned(banned_users, task[w].user_uuid) THEN IdleTask
            ELSE Advance(w, task[w])]
    /\ UNCHANGED <<timeVars, cacheVars, usageVars, banVars, alert_cooldowns,
                   owner_phone, received, replies, notifications, lastOp,
                   reactions>>

\* await asyncio.sleep(BETWEEN_CARD_DELAY) returns: the sleep is shorter than
\* a tick of the clock, and the task goes on to the lookup of its query.
Pace(w) ==
    /\ task[w].pc = "pace"
    /\ task' = [task EXCEPT ![w] = [task[w] EXCEPT !.pc = "get"]]
    /\ UNCHANGED <<timeVars, cacheVars, usageVars, banVars, alert_cooldowns,
                   owner_phone, received, replies, notifications, lastOp,
                   reactions>>

\* get_card_by_name going to the resolver whatever the cache answers.
CacheGet_always_fetch(w) ==
    /\ task[w].pc = "get"
    /\ card_cache' = get_cached(card_cache, QueryKey(w), clock).cache
    /\ task' = [task EXCEPT ![w] = [task[w] EXCEPT !.pc = "fetch"]]
    /\ UNCHANGED <<timeVars, written, usageVars, banVars, alert_cooldowns,
                   owner_phone, received, replies, notifications, lastOp,
                   reactions>>

\* get_card_by_name: cached = await get_cached(cache_key); if cached: return
CacheGet(w) ==
    /\ task[w].pc = "get"
    /\ LET r == get_cached(card_cache, QueryKey(w), clock)
       IN /\ card_cache' = r.cache
          /\ task' = [task EXCEPT ![w] =
                IF Truthy(r.result)
                THEN [task[w] EXCEPT !.pc = "send", !.data = r.result]
                ELSE [task[w] EXCEPT !.pc = "fetch"]]
    /\ UNCHANGED <<timeVars, written, usageVars, banVars, alert_cooldowns,
                   owner_phone, received, replies, notifications, lastOp,
                   reactions>>

\* How a request for a name can fail in the runs explored: the answer to the
\* one name is at times an error object (rate limited, ambiguous: _get raises
\* ScryfallError), the request for the other at times fails itself (timeout,
\* transport error: httpx raises).
FetchFailures(name) ==
    IF Lower(name) = Lower(NameBolt) THEN {"scryfall_error"} ELSE {"exception"}

\* The fetch storing the error answer in the cache before it raises.
Fetch_caching_failure(w) ==
    /\ task[w].pc = "fetch"
    /\ \/ /\ task' = [task EXCEPT ![w] =
                    [task[w] EXCEPT !.pc = "set",
                                    !.data = Some(ResolverCard(Query(w).name))]]
          /\ UNCHANGED card_cache
       \/ /\ \E f \in FetchFailures(Query(w).name) :
                    task' = [task EXCEPT ![w] = [task[w] EXCEPT !.pc = f]]
          /\ card_cache' = set_cached(card_cache, QueryKey(w), EmptyDict, clock)
    /\ UNCHANGED <<timeVars, written, usageVars, banVars, alert_cooldowns,
                   owner_phone, received, replies, notifications, lastOp,
                   reactions>>

\* data = await _get(...): a card, an error object (ScryfallError), or the
\* request itself fails (timeout, transport error).
Fetch(w) ==
    /\ task[w].pc = "fetch"
    /\ \/ task' = [task EXCEPT ![w] =
                [task[w] EXCEPT !.pc = "set",
                                !.data = Some(ResolverCard(Query(w).name))]]
       \/ \E f \in FetchFailures(Query(w).name) :
                task' = [task EXCEPT ![w] = [task[w] EXCEPT !.pc = f]]
    /\ UNCHANGED <<timeVars, cacheVars, usageVars, banVars, alert_cooldowns,
                   owner_phone, received, replies, notifications, lastOp,
                   reactions>>

\* await set_cached(cache_key, data); return data
CacheSet(w) ==
    /\ task[w].pc = "set"
    /\ card_cache' = set_cached(card_cache, QueryKey(w), task[w].data[1], clock)
    /\ written' = [written EXCEPT ![QueryKey(w)] =
            Some([data |-> task[w].data[1], at |-> clock,
                  over |-> \E r \in card_cache : r.cache_key = QueryKey(w)])]
    /\ task' = [task EXCEPT ![w] = [task[w] EXCEPT !.pc = "send"]]
    /\ UNCHANGED <<timeVars, usageVars, banVars, alert_cooldowns, owner_phone,
                   received, replies, notifications, lastOp,
                   reactions>>

\* _handle_query returning without the send of the card.
SendResult_skipped(w) ==
    /\ task[w].pc = "send"
    /\ task' = [task EXCEPT ![w] = [task[w] EXCEPT !.pc = "log"]]
    /\ UNCHANGED <<timeVars, cacheVars, usageVars, banVars, alert_cooldowns,
                   owner_phone, received, replies, notifications, lastOp,
                   reactions>>

\* _handle_query's send of the formatted card.
SendResult(w) ==
    /\ task[w].pc = "send"
    /\ Send(w, Reply(w, "result"))
    /\ task' = [task EXCEPT ![w] = [task[w] EXCEPT !.pc = "log", !.sent = @ + 1]]
    /\ UNCHANGED <<timeVars, cacheVars, usageVars, banVars, alert_cooldowns,
                   owner_phone, received, notifications, lastOp,
                   reactions>>

\* await log_usage(user_uuid, user_phone, query.raw);
\* if self._signal_sender and self._owner_phone: check_and_alert(...)
LogLookup(w) ==
    /\ task[w].pc = "log"
    /\ LET r == log_usage(usage_log, usage_seq, task[w].user_uuid,
                          task[w].user_phone, Query(w).raw, clock)
       IN /\ usage_log' = r.log
          /\ usage_seq' = r.seq
          /\ logged' = Append(logged,
                [user_uuid |-> task[w].user_uuid, at |-> clock,
                 banned_on_arrival |-> task[w].banned_on_arrival])
          /\ task' = [task EXCEPT ![w] =
                IF owner_phone # ""
                THEN [task[w] EXCEPT !.pc = "alert", !.row_id = r.seq]
                ELSE Advance(w, [task[w] EXCEPT !.row_id = r.seq])]
    /\ UNCHANGED <<timeVars, cacheVars, banVars, alert_cooldowns, owner_phone,
                   received, replies, notifications, lastOp, paged,
                   reactions>>

\* check_and_alert up to its await: now = time.time(); the cooldown test.
AlertStart(w) ==
    /\ task[w].pc = "alert"
    /\ task' = [task EXCEPT ![w] =
            IF in_cooldown(alert_cooldowns, task[w].user_uuid, clock)
            THEN Advance(w, task[w])
            ELSE [task[w] EXCEPT !.pc = "count", !.now = clock]]
    /\ UNCHANGED <<timeVars, cacheVars, usageVars, banVars, alert_cooldowns,
                   owner_phone, received, replies, notifications, lastOp,
                   reactions>>

\* try: await signal_sender(owner_phone, msg) / except Exception: log -- the
\* task goes on in handle whether or not the message was delivered.  (The
\* variant lets the failure of the delivery out of check_and_alert.)
after_signal_sender_raising(w, delivered) ==
    IF delivered THEN Advance(w, task[w]) ELSE [task[w] EXCEPT !.pc = "exception"]

after_signal_sender(w, delivered) == Advance(w, task[w])

\* count = await get_user_lookup_count(user_uuid) and what follows it without
\* another task running in between: the threshold test, the cooldown write,
\* the message handed to the signal sender, which delivers it or fails.
AlertEvaluate(w, delivered) ==
    /\ LET count == get_user_lookup_count(usage_log, task[w].user_uuid,
                                          SUSPICIOUS_WINDOW, clock)
       IN IF below_threshold(count)
          THEN /\ delivered
               /\ UNCHANGED <<alert_cooldowns, notifications>>
               /\ task' = [task EXCEPT ![w] = Advance(w, task[w])]
          ELSE /\ alert_cooldowns' =
                    SetLastAlert(alert_cooldowns, task[w].user_uuid, task[w].now)
               /\ notifications' = Append(notifications,
                    [to |-> owner_phone, user_uuid |-> task[w].user_uuid,
                     count |-> count, now |-> task[w].now, at |-> clock,
                     delivered |-> delivered])
               /\ task' = [task EXCEPT ![w] = after_signal_sender(w, delivered)]
    /\ UNCHANGED <<timeVars, cacheVars, usageVars, banVars, owner_phone,
                   received, replies, lastOp,
                   reactions>>

\* check_and_alert from its await on, the signal sender working.
AlertCount(w) ==
    /\ task[w].pc = "count"
    /\ AlertEvaluate(w, TRUE)

\* check_and_alert from its await on, the signal sender raising.
AlertCountUndelivered(w) ==
    /\ task[w].pc = "count"
    /\ AlertEvaluate(w, FALSE)

\* await log_usage(...) raises: the store fails (sqlite3.OperationalError),
\* no row is written, and the exception lands in handle's except Exception.
LogFails(w) ==
    /\ task[w].pc = "log"
    /\ task' = [task EXCEPT ![w] = [task[w] EXCEPT !.pc = "exception"]]
    /\ UNCHANGED <<timeVars, cacheVars, usageVars, banVars, alert_cooldowns,
                   owner_phone, received, replies, notifications, lastOp,
                   reactions>>

\* await get_user_lookup_count(...) raises inside check_and_alert, which
\* has no handler around it: the exception lands in handle's except Exception.
CountFails(w) ==
    /\ task[w].pc = "count"
    /\ task' = [task EXCEPT ![w] = [task[w] EXCEPT !.pc = "exception"]]
    /\ UNCHANGED <<timeVars, cacheVars, usageVars, banVars, alert_cooldowns,
                   owner_phone, received, replies, notifications, lastOp,
                   reactions>>

\* The error of the resolver ending the whole message after the failure message.
OnScryfallError_abort(w) ==
    /\ task[w].pc = "scryfall_error"
    /\ Send(w, Reply(w, "not_found"))
    /\ task' = [task EXCEPT ![w] = IdleTask]
    /\ UNCHANGED <<timeVars, cacheVars, usageVars, banVars, alert_cooldowns,
                   owner_phone, received, notifications, lastOp,
                   reactions>>

\* except ScryfallError: c.send("Could not find card ...")
OnScryfallError(w) ==
    /\ task[w].pc = "scryfall_error"
    /\ Send(w, Reply(w, "not_found"))
    /\ task' = [task EXCEPT ![w] = Advance(w, task[w])]
    /\ UNCHANGED <<timeVars, cacheVars, usageVars, banVars, alert_cooldowns,
                   owner_phone, received, notifications, lastOp,
                   reactions>>

\* except Exception: c.send("Something went wrong looking up ...")
OnException(w) ==
    /\ task[w].pc = "exception"
    /\ Send(w, Reply(w, "failed"))
    /\ task' = [task EXCEPT ![w] = Advance(w, task[w])]
    /\ UNCHANGED <<timeVars, cacheVars, usageVars, banVars, alert_cooldowns,
                   owner_phone, received, notifications, lastOp,
                   reactions>>

\* ------------------------------------------------------------- Init
NoOp == [op |-> "none", arg |-> None, result |-> None, at |-> 0]

InitStore ==
    /\ clock = Seconds(StartSecond)
    /\ ticks = 0
    /\ sweep = "sleep"
    /\ card_cache = {}
    /\ written = [k \in Keys |-> Absent]
    /\ usage_log = {}
    /\ usage_seq = 0
    /\ logged = <<>>
    /\ paged = Absent
    /\ banned_users = {}
    /\ ban_calls = [u \in Users |-> Absent]
    /\ pending_codes = [c \in Codes |-> Absent]
    /\ code_calls = [c \in Codes |-> Absent]
    /\ lastOp = NoOp

InitBotIdle ==
    /\ alert_cooldowns = <<>>
    /\ owner_phone = ""
    /\ task = [w \in Workers |-> IdleTask]
    /\ received = 0
    /\ replies = <<>>
    /\ notifications = <<>>
    /\ reactions = <<>>

\* ---- the cache alone: init_db on an empty store, then any calls
InitCache == InitStore /\ InitBotIdle

\* Clock advances explored around the cache: a sub-second step and the TTL.
CacheDeltas == {1, Seconds(CACHE_TTL_SECONDS)}

NextCache ==
    \/ \E d \in CacheDeltas : Tick(d)
    \/ \E k \in Keys, v \in Values : SetCached(k, v)
    \/ \E k \in Keys : GetCached(k)
    \/ PurgeExpired
    \/ \E k \in Keys : PurgeKey(k)
    \/ PurgeAll
    \/ \E s \in SearchStrings : SearchCache(s)
    \/ GetCacheStats

SpecCache == InitCache /\ [][NextCache]_vars

\* ---- the usage ledger alone: init_tables on an empty store, then any calls
UsageDeltas == {1, Seconds(SUSPICIOUS_WINDOW)}
Thresholds == {1, 2, SUSPICIOUS_THRESHOLD}
Windows == {SUSPICIOUS_WINDOW}

InitUsage == InitStore /\ InitBotIdle

NextUsage ==
    \/ \E d \in UsageDeltas : Tick(d)
    \/ \E u \in Users : LogUsage(u, PhoneOf(u), "bolt")
    \/ \E u \in Users, w \in Windows : GetUserLookupCount(u, w)
    \/ \E th \in Thresholds, w \in Windows : GetSuspiciousUsers(th, w)

SpecUsage == InitUsage /\ [][NextUsage]_vars

\* ---- the ban registry alone: init_tables on an empty store, then any calls
BanDeltas == {1, Seconds(1)}
Reasons == {None, "spam"}

InitBan == InitStore /\ InitBotIdle

NextBan ==
    \/ \E d \in BanDeltas : Tick(d)
    \/ \E u \in Users, r \in Reasons : BanUser(u, r)
    \/ \E u \in Users : UnbanUser(u)
    \/ \E u \in Users : IsBanned(u)
    \/ GetBannedUsers

SpecBan == InitBan /\ [][NextBan]_vars

\* ---- the contacts of the ledger: a user's events may carry different
\* numbers or none (source_number is the message's, the user id may be shared
\* by senders without source_uuid)
ContactDeltas == {Seconds(1)}

InitContacts == InitStore /\ InitBotIdle

NextContacts ==
    \/ \E d \in ContactDeltas : Tick(d)
    \/ \E u \in Users, ph \in Phones : LogUsage(u, ph, NameBolt)
    \/ \E th \in {1, 2} : GetSuspiciousUsers(th, SUSPICIOUS_WINDOW)

SpecContacts == InitContacts /\ [][NextContacts]_vars

\* ------------------------------------------------------------ bot/parser.py
\* A text is the sequence of its characters; " " is the white space.
FLAGS == {"!", "?", "#", "$"}

\* str.upper() on the letters met here.
UpperChar(c) == IF c = "a" THEN "A" ELSE c
Upper(s) == [i \in DOMAIN s |-> UpperChar(s[i])]

\* s.split("|"): the runs between the bars, one more than there are bars.
RECURSIVE SplitBar(_)
SplitBar(s) ==
    IF \A i \in DOMAIN s : s[i] # "|" THEN <<s>>
    ELSE LET b == CHOOSE i \in DOMAIN s :
                    s[i] = "|" /\ \A j \in 1..(i - 1) : s[j] # "|"
         IN <<SubSeq(s, 1, b - 1)>> \o SplitBar(SubSeq(s, b + 1, Len(s)))

\* _parse_single
ParseSingleText(raw) ==
    LET flagged == raw # <<>> /\ raw[1] \in FLAGS
        name_part == IF flagged THEN Strip(Tail(raw)) ELSE raw
        split == SplitBar(name_part)
        parts == [i \in DOMAIN split |-> Strip(split[i])]
    IN [raw |-> raw,
        flag |-> IF flagged THEN raw[1] ELSE None,
        name |-> parts[1],
        set_code |-> IF Len(parts) > 1 THEN Upper(parts[2]) ELSE None,
        collector_number |-> IF Len(parts) > 2 THEN parts[3] ELSE None]

\* CARD_PATTERN.finditer(text) from position i on: the group 1 of each match
\* of \[\[([^\[\]]+?)\]\], leftmost first, the matches not overlapping.
RECURSIVE CardMatches(_, _)
CardMatches(text, i) ==
    IF i + 4 > Len(text) THEN <<>>
    ELSE LET inside == {j \in (i + 2)..Len(text) :
                            \A k \in (i + 2)..j : text[k] \notin {"[", "]"}}
             last == IF inside = {} THEN i + 1
                     ELSE CHOOSE j \in inside : \A k \in inside : k <= j
         IN IF /\ text[i] = "[" /\ text[i + 1] = "["
               /\ inside # {}
               /\ last + 2 <= Len(text)
               /\ text[last + 1] = "]" /\ text[last + 2] = "]"
            THEN <<SubSeq(text, i + 2, last)>> \o CardMatches(text, last + 3)
            ELSE CardMatches(text, i + 1)

\* parse_queries taking the text after a dot for a query wherever the dot is.
parse_text_dot_anywhere(text) ==
    IF \E i \in DOMAIN text : text[i] = "."
    THEN LET d == CHOOSE i \in DOMAIN text :
                    text[i] = "." /\ \A j \in 1..(i - 1) : text[j] # "."
         IN <<ParseSingleText(Strip(SubSeq(text, d + 1, Len(text))))>>
    ELSE LET m == CardMatches(text, 1)
         IN [i \in DOMAIN m |-> ParseSingleText(Strip(m[i]))]

\* parse_queries on the characters of a text.
parse_text(text) ==
    LET stripped == Strip(text)
    IN IF stripped # <<>> /\ stripped[1] = "." /\ Len(stripped) > 1
       THEN <<ParseSingleText(Strip(Tail(stripped)))>>
       ELSE LET m == CardMatches(text, 1)
            IN [i \in DOMAIN m |-> ParseSingleText(Strip(m[i]))]

ParseQueries(text) ==
    /\ ApiCall("parse_queries", text, parse_text(text))
    /\ UNCHANGED <<timeVars, cacheVars, usageVars, banVars, botVars>>

\* The texts parsed: every text of up to MaxTextLen of these characters, and
\* the shorter ones in [[ ]] with a dot before, after or nowhere.
TextChars == {".", " ", "a", "!", "|"}
TextsUpTo(n) == UNION {[1..k -> TextChars] : k \in 0..n}
Bracketed(s) == <<"[", "[">> \o s \o <<"]", "]">>
Texts ==
    TextsUpTo(MaxTextLen)
    \cup UNION {{Bracketed(s), <<".">> \o Bracketed(s), Bracketed(s) \o <<".">>,
                 <<"a", ".", " ">> \o Bracketed(s), Bracketed(s) \o Bracketed(s)} :
                    s \in TextsUpTo(MaxTextLen - 1)}

InitParser == InitStore /\ InitBotIdle

NextParser == \E text \in Texts : ParseQueries(text)

SpecParser == InitParser /\ [][NextParser]_vars

\* ---- the admin login: request_code behind login_submit, verify_code
\* login_submit(phone): request_code, in which generate_totp draws the code
\* and the signal sender delivers the message or raises, then the answer.
LoginSubmit(phone, code, delivered) ==
    /\ IF IsOwner(phone, owner_phone)
       THEN /\ pending_codes' = [pending_codes EXCEPT ![code] =
                    Some([phone |-> owner_phone,
                          expires |-> clock + Seconds(TOTP_EXPIRY)])]
            /\ code_calls' = [code_calls EXCEPT ![code] =
                    Some([at |-> clock, accepted |-> 0, delivered |-> delivered])]
       ELSE UNCHANGED authVars
    /\ ApiCall("login_submit", phone, login_response(phone, owner_phone))
    /\ UNCHANGED <<timeVars, cacheVars, usageVars, banned_users, ban_calls,
                   botVars>>

VerifyCode(code) ==
    LET r == verify_code(pending_codes, code, clock)
    IN /\ pending_codes' = r.pending
       /\ code_calls' = IF r.ok
                        THEN [code_calls EXCEPT ![code] =
                                Some([@[1] EXCEPT !.accepted = @ + 1])]
                        ELSE code_calls
       /\ ApiCall("verify_code", code, r.ok)
       /\ UNCHANGED <<timeVars, cacheVars, usageVars, banned_users, ban_calls,
                      botVars>>

\* The numbers the login form is given: the owner's, the owner's with white
\* space around it, another number, nothing.
LoginPhones ==
    {<<OwnerPhone>>, <<" ", OwnerPhone, " ">>, <<"+61400000009">>, <<>>}

AuthDeltas == {1, Seconds(TOTP_EXPIRY)}

\* The admin panel is served only with OWNER_PHONE_NUMBER set.
InitAuth ==
    /\ InitStore
    /\ alert_cooldowns = <<>>
    /\ owner_phone = OwnerPhone
    /\ task = [w \in Workers |-> IdleTask]
    /\ received = 0
    /\ replies = <<>>
    /\ notifications = <<>>
    /\ reactions = <<>>

NextAuth ==
    \/ \E d \in AuthDeltas : Tick(d)
    \/ \E ph \in LoginPhones, c \in Codes, delivered \in BOOLEAN :
            LoginSubmit(ph, c, delivered)
    \/ \E c \in Codes \cup {NeverDrawn} : VerifyCode(c)

SpecAuth == InitAuth /\ [][NextAuth]_vars

\* ---- the sweep at work while cards are cached.  asyncio.sleep returns
\* when the event loop runs (weak fairness); a purge may raise any number of
\* times but does not raise for ever (strong fairness).
InitSweep == InitStore /\ InitBotIdle

NextSweep ==
    \/ SweepWake
    \/ SweepPurge
    \/ SweepPurgeFails
    \/ SweepExcept
    \/ \E k \in Keys : SweepCacheSet(k, CardBolt)

SpecSweep ==
    /\ InitSweep
    /\ [][NextSweep]_vars
    /\ WF_vars(SweepWake)
    /\ WF_vars(SweepExcept)
    /\ SF_vars(SweepPurge)

\* ---- the admin's mutations of the store, each possibly called again
AdminDeltas == {Seconds(1)}

\* The store after two cards were cached and u1's lookup was recorded,
\* nobody banned.
InitAdmin ==
    /\ InitBotIdle
    /\ clock = Seconds(StartSecond)
    /\ ticks = 0
    /\ sweep = "sleep"
    /\ card_cache = set_cached(set_cached({}, KeyBolt, CardBolt, clock),
                               KeyBear, CardBear, clock)
    /\ written = [k \in Keys |->
                    Some([data |-> IF k = KeyBolt THEN CardBolt ELSE CardBear,
                          at |-> clock, over |-> FALSE])]
    /\ usage_log = log_usage({}, 0, "u1", PhoneOf("u1"), NameBolt, clock).log
    /\ usage_seq = log_usage({}, 0, "u1", PhoneOf("u1"), NameBolt, clock).seq
    /\ logged = <<[user_uuid |-> "u1", at |-> clock, banned_on_arrival |-> FALSE]>>
    /\ paged = Absent
    /\ banned_users = {}
    /\ ban_calls = [u \in Users |-> Absent]
    /\ pending_codes = [c \in Codes |-> Absent]
    /\ code_calls = [c \in Codes |-> Absent]
    /\ lastOp = NoOp

NextAdmin ==
    \/ \E d \in AdminDeltas : Tick(d)
    \/ \E u \in Users, r \in Reasons : BanUser(u, r)
    \/ \E u \in Users : UnbanUser(u)
    \/ \E k \in Keys : PurgeKey(k)
    \/ PurgeAll

SpecAdmin == InitAdmin /\ [][NextAdmin]_vars

\* ---- the pages of the usage log: a ledger recorded earlier, then any calls
\* The ledgers of n log_usage calls by any users, each call in the second of
\* the one before it or in the next second.
RECURSIVE LedgersOf(_)
LedgersOf(n) ==
    IF n = 0
    THEN {[log |-> {}, seq |-> 0, logged |-> <<>>, t |-> Seconds(StartSecond)]}
    ELSE {[log |-> log_usage(l.log, l.seq, u, PhoneOf(u), NameBolt, l.t + d).log,
           seq |-> log_usage(l.log, l.seq, u, PhoneOf(u), NameBolt, l.t + d).seq,
           logged |-> Append(l.logged,
                        [user_uuid |-> u, at |-> l.t + d,
                         banned_on_arrival |-> FALSE]),
           t |-> l.t + d] :
            l \in LedgersOf(n - 1), u \in Users, d \in {0, Seconds(1)}}

PageSizes == {1, 2}
PageFilters == {None, "u1"}

InitPages ==
    /\ InitBotIdle
    /\ ticks = 0
    /\ sweep = "sleep"
    /\ card_cache = {}
    /\ written = [k \in Keys |-> Absent]
    /\ banned_users = {}
    /\ ban_calls = [u \in Users |-> Absent]
    /\ pending_codes = [c \in Codes |-> Absent]
    /\ code_calls = [c \in Codes |-> Absent]
    /\ lastOp = NoOp
    /\ paged = Absent
    /\ \E n \in 0..MaxEvents : \E l \in LedgersOf(n) :
            /\ usage_log = l.log
            /\ usage_seq = l.seq
            /\ logged = l.logged
            /\ clock = l.t

NextPages ==
    \E p \in 1..MaxEvents, s \in PageSizes, u \in PageFilters : GetUsageLog(p, s, u)

SpecPages == InitPages /\ [][NextPages]_vars

\* ---- the bot: workers handle messages while the admin bans and unbans
\* The store is durable and outlives the process: when the process starts the
\* ledger may already hold a user's recent lookups.  Backlog(n) is n rows of
\* user u1 stamped with the start second.
Backlog(n) ==
    {UsageRow(id, "u1", PhoneOf("u1"), NameBolt, Seconds(StartSecond)) : id \in 1..n}

Backlogs == (SUSPICIOUS_THRESHOLD - MaxBacklogGap)..(SUSPICIOUS_THRESHOLD - 1)

\* The cooldown map at the moment the model starts watching: empty (the
\* process has just started), or holding an alert about u1 sent exactly
\* ALERT_COOLDOWN ago, or one tick less than that ago.
StartCooldowns ==
    {<<>>} \cup
    {[u \in {"u1"} |-> Seconds(StartSecond) - Seconds(ALERT_COOLDOWN) + d] :
        d \in {0, 1}}

Init ==
    /\ clock = Seconds(StartSecond)
    /\ ticks = 0
    /\ sweep = "sleep"
    /\ card_cache = {}
    /\ written = [k \in Keys |-> Absent]
    /\ \E n \in Backlogs :
            /\ usage_log = Backlog(n)
            /\ usage_seq = n
            /\ \/ /\ owner_phone = ""
                  /\ n = SUSPICIOUS_THRESHOLD - 1
                  /\ alert_cooldowns = <<>>
               \/ /\ owner_phone = OwnerPhone
                  /\ n < SUSPICIOUS_THRESHOLD - 1
                  /\ alert_cooldowns = <<>>
               \/ /\ owner_phone = OwnerPhone
                  /\ n = SUSPICIOUS_THRESHOLD - 1
                  /\ alert_cooldowns \in StartCooldowns
    /\ logged = <<>>
    /\ paged = Absent
    /\ banned_users = {}
    /\ ban_calls = [u \in Users |-> Absent]
    /\ pending_codes = [c \in Codes |-> Absent]
    /\ code_calls = [c \in Codes |-> Absent]
    /\ lastOp = NoOp
    /\ task = [w \in Workers |-> IdleTask]
    /\ received = 0
    /\ replies = <<>>
    /\ notifications = <<>>
    /\ reactions = <<>>

\* Clock advances explored around the bot: to the last second of the window
\* that still counts the backlog, and one second past it.
BotDeltas == {Seconds(SUSPICIOUS_WINDOW) + 1, Seconds(SUSPICIOUS_WINDOW + 1)}

Next ==
    \/ \E d \in BotDeltas : BotTick(d)
    \/ \E w \in Workers, m \in Messages : Receive(w, m)
    \/ \E w \in Workers : BanCheck(w)
    \/ \E w \in Workers : Pace(w)
    \/ \E w \in Workers : CacheGet(w)
    \/ \E w \in Workers : Fetch(w)
    \/ \E w \in Workers : CacheSet(w)
    \/ \E w \in Workers : SendResult(w)
    \/ \E w \in Workers : LogLookup(w)
    \/ \E w \in Workers : AlertStart(w)
    \/ \E w \in Workers : AlertCount(w)
    \/ \E w \in Workers : OnScryfallError(w)
    \/ \E w \in Workers : OnException(w)
    \/ BotBan("u1")
    \/ BotUnban("u1")
    \/ BotCachePurge

Spec == Init /\ [][Next]_vars

\* ---- reactions.  main: phone_number = os.environ["BOT_PHONE_NUMBER"], the
\* number the bot's own messages carry as their author.
BotPhone == "+61400000009"

\* A reaction as the bot is handed it: a data message without text
\* (c.message.text is None) whose envelope names the emoji, the author and
\* the sent timestamp of the message reacted to, and says whether the
\* reaction is being taken back.
Reaction(emoji, author, ts, is_remove) ==
    [text |-> None, emoji |-> emoji, targetAuthor |-> author,
     targetSentTimestamp |-> ts, isRemove |-> is_remove, source_uuid |-> "u1"]

Emojis == {"wastebasket", "cross_mark", "thumbs_up"}
Authors == {BotPhone, PhoneOf("u1")}
\* Sent timestamps of two earlier messages, in small numbers.
SentTimestamps == {1001, 1002}

Reactions ==
    {Reaction(e, a, ts, rm) :
        e \in Emojis, a \in Authors, ts \in SentTimestamps, rm \in BOOLEAN}

\* handle for a message without text: text = c.message.text; if not text:
\* return.  Nothing before the return looks at the reaction, sends or calls
\* c.remote_delete; recorded are the timestamps handed to c.remote_delete,
\* in order, and how many times c.send was called.
HandleReaction(m) ==
    /\ Len(reactions) < MaxReactions
    /\ m.text = None
    /\ reactions' = Append(reactions,
            [message |-> m, remote_delete |-> <<>>, sent |-> 0])
    /\ UNCHANGED <<timeVars, cacheVars, usageVars, banVars, alert_cooldowns,
                   owner_phone, task, received, replies, notifications, lastOp>>

NextReactions == \E m \in Reactions : HandleReaction(m)

SpecReactions == Init /\ [][NextReactions]_vars

\* ---- lookups of one key racing: two users ask for the same card, each
\* task awaits the cache read, the request and the cache write in turn, and
\* the clock moves on while they are under way.
RaceMessages == {Message("cards", <<NameBolt>>, u, PhoneOf(u)) : u \in Users}

RaceDeltas == {Seconds(1)}

InitRace == InitStore /\ InitBotIdle

NextRace ==
    \/ \E d \in RaceDeltas : Tick(d)
    \/ \E w \in Workers, m \in RaceMessages : Receive(w, m)
    \/ \E w \in Workers : BanCheck(w)
    \/ \E w \in Workers : CacheGet(w)
    \/ \E w \in Workers : Fetch(w)
    \/ \E w \in Workers : CacheSet(w)
    \/ \E w \in Workers : SendResult(w)
    \/ \E w \in Workers : LogLookup(w)
    \/ \E w \in Workers : OnScryfallError(w)

SpecRace == InitRace /\ [][NextRace]_vars

\* ---- the bot with two tasks when the signal sender fails at times.
NextUndelivered ==
    \/ \E d \in BotDeltas : BotTick(d)
    \/ \E w \in Workers, m \in Messages : Receive(w, m)
    \/ \E w \in Workers : BanCheck(w)
    \/ \E w \in Workers : Pace(w)
    \/ \E w \in Workers : CacheGet(w)
    \/ \E w \in Workers : Fetch(w)
    \/ \E w \in Workers : CacheSet(w)
    \/ \E w \in Workers : SendResult(w)
    \/ \E w \in Workers : LogLookup(w)
    \/ \E w \in Workers : AlertStart(w)
    \/ \E w \in Workers : AlertCount(w)
    \/ \E w \in Workers : AlertCountUndelivered(w)
    \/ \E w \in Workers : OnScryfallError(w)
    \/ \E w \in Workers : OnException(w)

SpecUndelivered == Init /\ [][NextUndelivered]_vars

\* ---- senders without a uuid: two of them, one with a number and one
\* without, and u1 next to them; the ledger starts two events short of the
\* threshold for the user id they are given.
AnonymousNumbers == {None, "+61400000002"}

UnknownMessages ==
    {Message("cards", <<NameBolt>>, None, p) : p \in AnonymousNumbers}
    \cup {Message("cards", <<NameBear>>, "u1", PhoneOf("u1"))}

UnknownBacklog ==
    {UsageRow(id, "unknown", IF id % 2 = 0 THEN None ELSE "+61400000002",
              NameBolt, Seconds(StartSecond)) :
        id \in 1..(SUSPICIOUS_THRESHOLD - 2)}

InitUnknown ==
    /\ clock = Seconds(StartSecond)
    /\ ticks = 0
    /\ sweep = "sleep"
    /\ card_cache = {}
    /\ written = [k \in Keys |-> Absent]
    /\ usage_log = UnknownBacklog
    /\ usage_seq = SUSPICIOUS_THRESHOLD - 2
    /\ logged = <<>>
    /\ paged = Absent
    /\ banned_users = {}
    /\ ban_calls = [u \in Users |-> Absent]
    /\ pending_codes = [c \in Codes |-> Absent]
    /\ code_calls = [c \in Codes |-> Absent]
    /\ lastOp = NoOp
    /\ alert_cooldowns = <<>>
    /\ owner_phone = OwnerPhone
    /\ task = [w \in Workers |-> IdleTask]
    /\ received = 0
    /\ replies = <<>>
    /\ notifications = <<>>
    /\ reactions = <<>>

NextUnknown ==
    \/ \E w \in Workers, m \in UnknownMessages : Receive(w, m)
    \/ \E w \in Workers : BanCheck(w)
    \/ \E w \in Workers : CacheGet(w)
    \/ \E w \in Workers : Fetch(w)
    \/ \E w \in Workers : CacheSet(w)
    \/ \E w \in Workers : SendResult(w)
    \/ \E w \in Workers : LogLookup(w)
    \/ \E w \in Workers : AlertStart(w)
    \/ \E w \in Workers : AlertCount(w)
    \/ \E w \in Workers : OnScryfallError(w)
    \/ \E w \in Workers : OnException(w)
    \/ BotBan("unknown")

SpecUnknown == InitUnknown /\ [][NextUnknown]_vars

\* ---- the bot when the store and the signal sender fail at times: one task
\* handles the messages one after the other.
Handler == CHOOSE w \in Workers : \A v \in Workers : w <= v

NextFaults ==
    \/ \E m \in Messages : Receive(Handler, m)
    \/ BanCheck(Handler)
    \/ Pace(Handler)
    \/ CacheGet(Handler)
    \/ Fetch(Handler)
    \/ CacheSet(Handler)
    \/ SendResult(Handler)
    \/ LogLookup(Handler)
    \/ LogFails(Handler)
    \/ AlertStart(Handler)
    \/ AlertCount(Handler)
    \/ AlertCountUndelivered(Handler)
    \/ CountFails(Handler)
    \/ OnScryfallError(Handler)
    \/ OnException(Handler)

SpecFaults == Init /\ [][NextFaults]_vars

\* ============================================================ the cache
\* The characters of s occur in key as one run (s is a substring of key).
IsSubstring(s, key) ==
    \E i \in 1..(Len(key) - Len(s) + 1) : SubSeq(key, i, i + Len(s) - 1) = s

\* The step is a call of the storage operation op (every call leaves the
\* clock alone and names itself in lastOp; only the clock's steps keep lastOp).
Calls(op) == lastOp'.op = op /\ clock' = clock

RowsOf(key) == {r \in card_cache : r.cache_key = key}

\* C4: get(k) returns v when it follows set(k, v) with no set or purge of k
\* in between and the reading of the clock in get is at most 86400 seconds
\* past the stored cachedAt.
C4_GetReturnsWhatWasSet ==
    \A k \in Keys :
        (/\ lastOp.op = "get_cached"
         /\ lastOp.arg = k
         /\ written[k] # Absent
         /\ lastOp.at - Seconds(IntTime(written[k][1].at))
                <= Seconds(CACHE_TTL_SECONDS))
        => lastOp.result = Some(written[k][1].data)

\* A get exactly TTL after the set returned the value that was set.
C4_Witness ==
    /\ lastOp.op = "get_cached"
    /\ written[lastOp.arg] # Absent
    /\ lastOp.at - Seconds(IntTime(written[lastOp.arg][1].at))
            = Seconds(CACHE_TTL_SECONDS)
    /\ lastOp.result = Some(CardBear)

\* C5: get returns absent whenever its clock reading is more than 86400
\* seconds past cachedAt although the row is stored; get changes no row; a
\* row leaves the table only by a purge (or by the set that replaces it), and
\* while stored it is listed by search and counted by stats, stale or not.
C5_StaleAbsentButStored ==
    /\ [](/\ \A r \in card_cache :
                (/\ lastOp.op = "get_cached"
                 /\ lastOp.arg = r.cache_key
                 /\ lastOp.at - Seconds(r.cached_at) > Seconds(CACHE_TTL_SECONDS))
                => lastOp.result = Absent
          /\ lastOp.op = "search_cache" =>
                \A r \in card_cache :
                    IsSubstring(lastOp.arg, r.cache_key) =>
                        [cache_key |-> r.cache_key, cached_at |-> r.cached_at]
                            \in lastOp.result
          /\ lastOp.op = "get_cache_stats" =>
                lastOp.result.total_entries = Cardinality(card_cache))
    /\ [][/\ Calls("get_cached") => card_cache' = card_cache
          /\ \A r \in card_cache :
                \/ \E r2 \in card_cache' : r2.cache_key = r.cache_key
                \/ lastOp'.op \in {"purge_expired", "purge_key", "purge_all"}]_vars

\* A get has returned absent for a key whose stale row is still stored.
C5_Witness ==
    /\ lastOp.op = "get_cached"
    /\ lastOp.result = Absent
    /\ \E r \in card_cache :
            /\ r.cache_key = lastOp.arg
            /\ lastOp.at - Seconds(r.cached_at) > Seconds(CACHE_TTL_SECONDS)

\* C6: the cache never holds two rows with one key; after set(k, v) the one
\* row of k carries v and cachedAt = now, and the rows of the other keys are
\* as they were.
C6_OneRowPerKey ==
    /\ [](/\ \A r1, r2 \in card_cache : r1.cache_key = r2.cache_key => r1 = r2
          /\ lastOp.op = "set_cached" =>
                /\ Cardinality(RowsOf(lastOp.arg)) = 1
                /\ \A r \in RowsOf(lastOp.arg) :
                        /\ JsonLoads(r.data) = written[lastOp.arg][1].data
                        /\ r.cached_at = IntTime(lastOp.at))
    /\ [][Calls("set_cached") =>
                {r \in card_cache' : r.cache_key # lastOp'.arg}
                    = {r \in card_cache : r.cache_key # lastOp'.arg}]_vars

\* A set has replaced the row of a key that was stored with another value
\* and an older cachedAt, while another key's row is stored too.
C6_Witness ==
    /\ lastOp.op = "set_cached"
    /\ written[lastOp.arg][1].over
    /\ IntTime(lastOp.at) > StartSecond
    /\ Cardinality(card_cache) = 2

\* C7: purgeExpired deletes exactly the rows with cachedAt < now - 86400
\* (now in whole seconds, as cachedAt is), leaves the others untouched and
\* returns how many it deleted; called again in the same second it returns 0
\* and changes nothing.
C7_PurgeExpiredExact ==
    [][Calls("purge_expired") =>
        /\ card_cache' =
                {r \in card_cache :
                    ~(r.cached_at < IntTime(clock) - CACHE_TTL_SECONDS)}
        /\ lastOp'.result = Cardinality(card_cache \ card_cache')
        /\ (lastOp.op = "purge_expired" /\ IntTime(lastOp.at) = IntTime(clock))
                => (lastOp'.result = 0 /\ card_cache' = card_cache)]_vars

\* A purge has deleted one expired row and kept a row cached exactly at the
\* cutoff.
C7_Witness ==
    /\ lastOp.op = "purge_expired"
    /\ lastOp.result = 1
    /\ \E r \in card_cache :
            r.cached_at = IntTime(lastOp.at) - CACHE_TTL_SECONDS

\* ======================================================= the usage ledger
\* How many of the recorded calls of log_usage were for user u and fall in
\* the window of w seconds that ends at the clock reading t.
RecordedInWindow(u, w, t) ==
    Cardinality({i \in DOMAIN logged :
                    /\ logged[i].user_uuid = u
                    /\ IntTime(logged[i].at) >= IntTime(t) - w})

\* C8: countInWindow(u, W) is the number of record calls made for u whose
\* second is >= now - W (the boundary second counts), whatever was recorded
\* outside the window or for other users.
C8_CountIsRecordedInWindow ==
    lastOp.op = "get_user_lookup_count" =>
        lastOp.result =
            RecordedInWindow(lastOp.arg.user_uuid, lastOp.arg.window_seconds,
                             lastOp.at)

\* A count of 1 that counted an event exactly W seconds old and left out an
\* older event of the same user and an event of another user.
C8_Witness ==
    /\ lastOp.op = "get_user_lookup_count"
    /\ lastOp.result = 1
    /\ \E i, j, k \in DOMAIN logged :
            /\ logged[i].user_uuid = lastOp.arg.user_uuid
            /\ IntTime(logged[i].at) = IntTime(lastOp.at) - lastOp.arg.window_seconds
            /\ logged[j].user_uuid = lastOp.arg.user_uuid
            /\ IntTime(logged[j].at) < IntTime(lastOp.at) - lastOp.arg.window_seconds
            /\ logged[k].user_uuid # lastOp.arg.user_uuid

\* C9: suspiciousUsers(T, W) lists a user exactly when countInWindow(u, W) >= T,
\* once, with that count, and the list is sorted by count, largest first.
C9_SuspiciousUsersExact ==
    lastOp.op = "get_suspicious_users" =>
        LET s == lastOp.result
            T == lastOp.arg.threshold
            W == lastOp.arg.window_seconds
            Count(u) == get_user_lookup_count(usage_log, u, W, lastOp.at)
        IN /\ \A u \in Users :
                Cardinality({i \in DOMAIN s : s[i].user_uuid = u})
                    = IF Count(u) >= T THEN 1 ELSE 0
           /\ \A i \in DOMAIN s :
                /\ s[i].user_uuid \in Users
                /\ s[i].lookup_count = Count(s[i].user_uuid)
           /\ \A i, j \in DOMAIN s :
                i < j => s[i].lookup_count >= s[j].lookup_count

\* suspiciousUsers(2, W) returned one user, with count 2, while the other
\* user has an event in the window too.
C9_Witness ==
    /\ lastOp.op = "get_suspicious_users"
    /\ lastOp.arg.threshold = 2
    /\ Len(lastOp.result) = 1
    /\ lastOp.result[1].lookup_count = 2
    /\ \E u \in Users :
            /\ u # lastOp.result[1].user_uuid
            /\ get_user_lookup_count(usage_log, u, lastOp.arg.window_seconds,
                                     lastOp.at) = 1

\* ================================================================ the bot
\* C1: no two notifications about one user are emitted less than
\* ALERT_COOLDOWN seconds apart, however the handlings interleave.
C1_NotificationsCooldownApart ==
    \A i, j \in DOMAIN notifications :
        (i < j /\ notifications[i].user_uuid = notifications[j].user_uuid) =>
            notifications[j].at - notifications[i].at >= Seconds(ALERT_COOLDOWN)

\* The rows of user u whose second is in the window that ends at reading t.
RowsInWindow(u, t) ==
    {r \in usage_log :
        r.user_uuid = u /\ r.timestamp >= IntTime(t) - SUSPICIOUS_WINDOW}

\* C2: a call of check_and_alert for u that reads the clock as now goes on to
\* query the ledger exactly when now - lastAlertTime[u] >= ALERT_COOLDOWN
\* (0 for a user never alerted), and changes nothing otherwise; having
\* queried, it emits exactly when u has SUSPICIOUS_THRESHOLD or more rows in
\* the last SUSPICIOUS_WINDOW seconds: one notification to the owner naming u
\* and that count, with lastAlertTime[u] = now and every other user's
\* lastAlertTime as it was; when it does not emit, the map is unchanged.
C2_CheckAndAlert ==
    [][\A w \in Workers :
        LET u == task[w].user_uuid
        IN /\ (task[w].pc = "alert" /\ task'[w] # task[w]) =>
                /\ UNCHANGED <<alert_cooldowns, notifications, usage_log>>
                /\ task'[w].pc = "count" <=>
                        clock - LastAlert(alert_cooldowns, u) >= Seconds(ALERT_COOLDOWN)
                /\ task'[w].pc = "count" => task'[w].now = clock
           /\ (task[w].pc = "count" /\ task'[w] # task[w]) =>
                LET n == Cardinality(RowsInWindow(u, clock))
                IN IF n >= SUSPICIOUS_THRESHOLD
                   THEN /\ notifications' = Append(notifications,
                                [to |-> owner_phone, user_uuid |-> u, count |-> n,
                                 now |-> task[w].now, at |-> clock,
                                 delivered |-> TRUE])
                        /\ \A v \in Users :
                                LastAlert(alert_cooldowns', v) =
                                    IF v = u THEN task[w].now
                                    ELSE LastAlert(alert_cooldowns, v)
                   ELSE UNCHANGED <<alert_cooldowns, notifications>>
    ]_vars

\* One notification was emitted, for a count of exactly SUSPICIOUS_THRESHOLD,
\* by a call that read the clock at the start second; lastAlertTime of the
\* user is that call's now, the handling is over and the user has the card.
C2_Witness ==
    /\ Len(notifications) = 1
    /\ notifications[1].count = SUSPICIOUS_THRESHOLD
    /\ notifications[1].now = Seconds(StartSecond)
    /\ LastAlert(alert_cooldowns, notifications[1].user_uuid) = notifications[1].now
    /\ \A w \in Workers : task[w].pc = "idle"
    /\ \E i \in DOMAIN replies : replies[i].kind = "result"

\* C3: a message of a user who is banned when it arrives gets no reply of
\* any kind and adds no row to the ledger.
C3_BannedGetsNothing ==
    /\ \A i \in DOMAIN replies : ~replies[i].banned_on_arrival
    /\ \A i \in DOMAIN logged : ~logged[i].banned_on_arrival

\* The task leaves the query it is working on: it moves on to the next query
\* of the message, or the message is done.
LeavesQuery(w) ==
    /\ task[w].i >= 1
    /\ task'[w].pc = "idle" \/ task'[w].i > task[w].i

\* C10: every lookup handled for a user who passed the ban check is in the
\* ledger when the handler leaves it: one row with the user, the contact, the
\* raw query text and the second it was recorded, whether the card came from
\* the cache, from the resolver, or the lookup failed.
C10_EveryLookupRecorded ==
    [][\A w \in Workers :
        LeavesQuery(w) =>
            \E r \in usage_log' :
                /\ r.user_uuid = task[w].user_uuid
                /\ r.user_phone = task[w].user_phone
                /\ r.query = Query(w).raw
                /\ r.id = task[w].row_id \/ r \notin usage_log
    ]_vars

\* C11: the ledger is append-only.  No step removes or alters a row; a step
\* that changes the ledger is a task's log_usage and adds exactly one row,
\* whose id is greater than every id already there; every log_usage of a task
\* adds a row, also while another task is between its own steps; the admin's
\* ban, unban and cache purges, the cache reads and writes and the alert
\* evaluation leave the ledger as it is.
C11_LedgerAppendOnly ==
    [][/\ usage_log \subseteq usage_log'
       /\ usage_log' # usage_log =>
            /\ \E w \in Workers : task[w].pc = "log" /\ task'[w] # task[w]
            /\ \E r \in usage_log' :
                    /\ usage_log' = usage_log \cup {r}
                    /\ \A q \in usage_log : r.id > q.id
       /\ \A w \in Workers :
            (task[w].pc = "log" /\ task'[w] # task[w]) =>
                Cardinality(usage_log') = Cardinality(usage_log) + 1
    ]_vars

\* Two tasks are in the middle of their handlings, each has logged its own
\* lookup of the same user, both rows and every older row are in the ledger,
\* and the admin has banned the user meanwhile.
C11_Witness ==
    /\ \A w \in Workers : task[w].pc \in {"alert", "count"} /\ task[w].row_id # 0
    /\ task[1].row_id # task[2].row_id
    /\ task[1].user_uuid = task[2].user_uuid
    /\ \A w \in Workers : \E r \in usage_log :
            r.id = task[w].row_id /\ r.user_uuid = task[w].user_uuid
    /\ \A id \in 1..usage_seq : \E r \in usage_log : r.id = id
    /\ banned_users # {}

\* The row of the key is there, not older than the TTL, and its payload
\* counts as true: get_card_by_name returns it.
LiveRow(key) ==
    \E r \in card_cache :
        /\ r.cache_key = key
        /\ clock - Seconds(r.cached_at) <= Seconds(CACHE_TTL_SECONDS)
        /\ Truthy(Some(JsonLoads(r.data)))

\* C12: a lookup whose fetch fails writes nothing to the cache -- its cache
\* read, its failing fetch and the handling of the error each leave every
\* row as it was; the error reaches handle, which answers with the failure
\* message of that error and never with a card; and the failure is not
\* remembered: a lookup of a key without a live row goes to the resolver.
C12_FailedFetchLeavesCache ==
    [][\A w \in Workers :
        /\ (task[w].pc = "get" /\ task'[w] # task[w]) =>
                /\ card_cache' = card_cache
                /\ ~LiveRow(QueryKey(w)) => task'[w].pc = "fetch"
        /\ (task[w].pc = "fetch" /\ task'[w].pc # "set" /\ task'[w] # task[w]) =>
                /\ card_cache' = card_cache
                /\ task'[w].pc \in {"scryfall_error", "exception"}
                /\ task'[w].data = Absent
        /\ (task[w].pc \in {"scryfall_error", "exception"} /\ task'[w] # task[w]) =>
                /\ card_cache' = card_cache
                /\ replies' = Append(replies,
                        [to |-> task[w].user_uuid,
                         kind |-> IF task[w].pc = "scryfall_error"
                                  THEN "not_found" ELSE "failed",
                         query |-> Query(w).raw,
                         banned_on_arrival |-> task[w].banned_on_arrival])
                /\ task'[w].pc \in {"pace", "idle"}
    ]_vars

\* A lookup of a key failed and was answered with the failure message, the
\* cache has no row for the key, and a later lookup of the same key is at
\* the resolver again.
C12_Witness ==
    \E w \in Workers :
        /\ task[w].pc = "fetch"
        /\ \E i \in DOMAIN replies :
                replies[i].kind = "not_found" /\ replies[i].query = Query(w).raw
        /\ \A r \in card_cache : r.cache_key # QueryKey(w)
        /\ \A v \in Workers : v # w => task[v].pc = "idle"

\* The rows of the key that are not older than the TTL at the clock reading.
FreshRows(key) ==
    {r \in card_cache :
        /\ r.cache_key = key
        /\ clock - Seconds(r.cached_at) <= Seconds(CACHE_TTL_SECONDS)}

\* C13: a lookup whose key has a row that is not stale continues with the
\* value of that row, without a request to the resolver and without a cache
\* write; a lookup goes to the resolver only from a cache read that found no
\* such row; a fetch that succeeds is followed by one write, which leaves
\* one row for the key with the fetched value, and the rest of the lookup
\* (reply, ledger, alert) leaves the cache alone.
C13_HitSkipsResolver ==
    [][\A w \in Workers :
        /\ (task[w].pc = "get" /\ task'[w] # task[w]) =>
                /\ card_cache' = card_cache
                /\ IF FreshRows(QueryKey(w)) # {}
                   THEN /\ task'[w].pc = "send"
                        /\ \E r \in FreshRows(QueryKey(w)) :
                                task'[w].data = Some(JsonLoads(r.data))
                   ELSE task'[w].pc = "fetch"
        /\ (task'[w].pc = "fetch" /\ task[w].pc # "fetch") => task[w].pc = "get"
        /\ (task[w].pc = "fetch" /\ task'[w] # task[w]) =>
                /\ card_cache' = card_cache
                /\ task'[w].pc = "set" => task'[w].data = Some(ResolverCard(Query(w).name))
        /\ (task'[w].pc = "set" /\ task[w].pc # "set") => task[w].pc = "fetch"
        /\ (task[w].pc = "set" /\ task'[w] # task[w]) =>
                /\ task'[w].pc = "send"
                /\ card_cache' =
                        {r \in card_cache : r.cache_key # QueryKey(w)} \cup
                        {[cache_key |-> QueryKey(w),
                          data |-> JsonDumps(task[w].data[1]),
                          cached_at |-> IntTime(clock)]}
        /\ (task[w].pc \in {"send", "log", "alert", "count"} /\ task'[w] # task[w]) =>
                card_cache' = card_cache
    ]_vars

\* A lookup found a row written before the clock last advanced, and is about
\* to send the value of that row.
C13_Witness ==
    \E w \in Workers :
        /\ task[w].pc = "send"
        /\ written[QueryKey(w)] # Absent
        /\ written[QueryKey(w)][1].at < clock
        /\ task[w].data = Some(written[QueryKey(w)][1].data)
        /\ FreshRows(QueryKey(w)) # {}

\* C14: for each query the user gets one message, the formatted result or a
\* failure message, never both: no task sends a message for a query it has
\* already answered, also when recording the usage or evaluating the alert
\* fails after the reply.
C14_OneMessagePerQuery ==
    [][\A w \in Workers :
        (task[w].i >= 1 /\ task'[w] # task[w] /\ replies' # replies) =>
            task[w].sent = 0
    ]_vars

\* C15: an error of the resolver on a query is answered with one failure
\* message that names the query, and the handler goes on: to the lookup of
\* the next query of the message if there is one; it never ends a message
\* before its last query, and leaves no query without a message for it.
C15_ErrorDoesNotStopMessage ==
    [][\A w \in Workers :
        /\ (task[w].pc \in {"scryfall_error", "exception"} /\ task[w].sent = 0
                /\ task'[w] # task[w]) =>
                /\ \E r \in {replies'[Len(replies')]} :
                        /\ replies' = Append(replies, r)
                        /\ r.to = task[w].user_uuid
                        /\ r.kind \in {"not_found", "failed"}
                        /\ r.query = Query(w).raw
                /\ IF task[w].i < Len(task[w].queries)
                   THEN /\ task'[w].pc = "pace"
                        /\ task'[w].i = task[w].i + 1
                        /\ task'[w].queries = task[w].queries
                   ELSE task'[w].pc = "idle"
        /\ LeavesQuery(w) =>
                /\ task'[w].pc = "idle" => task[w].i = Len(task[w].queries)
                /\ task[w].sent >= 1 \/ Len(replies') = Len(replies) + 1
    ]_vars

\* A message with two queries has been handled: the first query failed at
\* the resolver and was answered with the failure message naming it, the
\* second was looked up and answered with its card.
C15_Witness ==
    /\ \A w \in Workers : task[w].pc = "idle"
    /\ received = 2
    /\ Len(replies) = 2
    /\ replies[1] = [to |-> "u1", kind |-> "not_found", query |-> NameBolt,
                     banned_on_arrival |-> FALSE]
    /\ replies[2] = [to |-> "u1", kind |-> "result", query |-> NameBear,
                     banned_on_arrival |-> FALSE]

\* C16: when the signal sender fails to deliver a notification,
\* check_and_alert returns normally: the step that attempted the delivery
\* makes one attempt, sends nothing to the user, and the handler goes on with
\* the next query of the message (or is done after the last).
C16_DeliveryFailureSwallowed ==
    [][\A w \in Workers :
        (/\ task[w].pc = "count" /\ task'[w] # task[w]
         /\ notifications' # notifications
         /\ ~notifications'[Len(notifications')].delivered) =>
            /\ Len(notifications') = Len(notifications) + 1
            /\ replies' = replies
            /\ IF task[w].i < Len(task[w].queries)
               THEN /\ task'[w].pc = "pace"
                    /\ task'[w].i = task[w].i + 1
                    /\ task'[w].queries = task[w].queries
               ELSE task'[w].pc = "idle"
    ]_vars

\* A message with two queries has been handled: the first lookup brought the
\* user's count to SUSPICIOUS_THRESHOLD, the notification was attempted once
\* and not delivered, the user got the two cards and nothing else, and both
\* lookups are in the ledger.
C16_Witness ==
    /\ \A w \in Workers : task[w].pc = "idle"
    /\ Len(notifications) = 1
    /\ ~notifications[1].delivered
    /\ notifications[1].count = SUSPICIOUS_THRESHOLD
    /\ Cardinality(usage_log) = SUSPICIOUS_THRESHOLD + 1
    /\ Len(replies) = 2
    /\ replies[1] = [to |-> "u1", kind |-> "result", query |-> NameBolt,
                     banned_on_arrival |-> FALSE]
    /\ replies[2] = [to |-> "u1", kind |-> "result", query |-> NameBear,
                     banned_on_arrival |-> FALSE]

\* ---- the pages of the usage log
\* The events of the ledger a call with this filter is about.
Matching(user_uuid) ==
    IF user_uuid # None /\ user_uuid # ""
    THEN {r \in usage_log : r.user_uuid = user_uuid} ELSE usage_log

EventsOf(rows) == {rows[i] : i \in DOMAIN rows}

\* What one answer of get_usage_log to (page, per_page, user_uuid) looks like:
\* the total is the number of matching events, the page has
\* min(S, max(0, N - (p-1)*S)) rows, each a matching event and none twice,
\* no row before one of a later second.
PageShape(arg, result) ==
    LET N == Cardinality(Matching(arg.user_uuid))
        left == N - (arg.page - 1) * arg.per_page
    IN /\ result.total = N
       /\ Len(result.rows) = Min(arg.per_page, IF left < 0 THEN 0 ELSE left)
       /\ EventsOf(result.rows) \subseteq Matching(arg.user_uuid)
       /\ Cardinality(EventsOf(result.rows)) = Len(result.rows)
       /\ \A i, j \in DOMAIN result.rows :
            i < j => result.rows[i].timestamp >= result.rows[j].timestamp

\* Every answer of get_usage_log has the shape of a page.
PagesHaveShape ==
    lastOp.op = "get_usage_log" => PageShape(lastOp.arg, lastOp.result)

\* C17: for a ledger with N events matching the filter and page size S, a
\* page has total N and min(S, max(0, N - (p-1)*S)) matching rows in
\* timestamp-descending order, and two different pages of the same ledger,
\* size and filter have no event in common, pages 1 and 2 holding every
\* matching event when there are no more than 2*S of them.
C17_PagesPartitionLedger ==
    /\ PagesHaveShape
    /\ (lastOp.op = "get_usage_log" /\ paged # Absent) =>
         LET a == paged[1].arg
             b == lastOp.arg
             rowsA == EventsOf(paged[1].result.rows)
             rowsB == EventsOf(lastOp.result.rows)
         IN (/\ a.per_page = b.per_page
             /\ a.user_uuid = b.user_uuid
             /\ a.page # b.page) =>
                /\ rowsA \cap rowsB = {}
                /\ ({a.page, b.page} = {1, 2}
                    /\ Cardinality(Matching(a.user_uuid)) <= 2 * a.per_page) =>
                        rowsA \cup rowsB = Matching(a.user_uuid)

\* C18: two calls of get_usage_log with the same page, size and filter on the
\* same ledger return the same rows in the same order, events of the same
\* second in the order of their ids.
C18_PageOrderDetermined ==
    /\ lastOp.op = "get_usage_log" =>
         \A i, j \in DOMAIN lastOp.result.rows :
            (/\ i < j
             /\ lastOp.result.rows[i].timestamp = lastOp.result.rows[j].timestamp) =>
                lastOp.result.rows[i].id > lastOp.result.rows[j].id
    /\ (lastOp.op = "get_usage_log" /\ paged # Absent
         /\ paged[1].arg = lastOp.arg) =>
            paged[1].result.rows = lastOp.result.rows

\* ---- the ban registry
\* The last ban_user or unban_user call on the user was a ban_user.
LastCallBans(u) == ban_calls[u] # Absent /\ ban_calls[u][1].op = "ban_user"

BanRecords(u) == {r \in banned_users : r.user_uuid = u}

\* C19: a user is banned exactly when the last ban_user or unban_user call
\* on that user was a ban_user (never banned: not banned; after ban_user:
\* banned; after unban_user: not banned again), whatever was called on other
\* users, and is_banned answers just that.
C19_BannedIffLastCallBans ==
    /\ \A u \in Users : is_banned(banned_users, u) <=> LastCallBans(u)
    /\ lastOp.op = "is_banned" => (lastOp.result <=> LastCallBans(lastOp.arg))

\* u1 was banned and then unbanned, and is_banned("u1") has answered False,
\* while u2, banned before that unban, is still banned.
C19_Witness ==
    /\ lastOp.op = "is_banned"
    /\ lastOp.arg = "u1"
    /\ lastOp.result = FALSE
    /\ ban_calls["u1"] # Absent
    /\ ban_calls["u1"][1].op = "unban_user"
    /\ ban_calls["u1"][1].over # {}
    /\ LastCallBans("u2")
    /\ ban_calls["u2"][1].at < ban_calls["u1"][1].at
    /\ is_banned(banned_users, "u2")

\* C20: no user has two ban records; after ban_user(u, reason) the one record
\* of u holds that call's reason and time, also when the call found u banned
\* already; get_banned_users lists every banned user once and nobody else.
C20_OneRecordPerUser ==
    /\ \A u \in Users :
        /\ Cardinality(BanRecords(u)) <= 1
        /\ LastCallBans(u) =>
                BanRecords(u) = {[user_uuid |-> u,
                                  banned_at |-> IntTime(ban_calls[u][1].at),
                                  reason |-> ban_calls[u][1].reason]}
    /\ lastOp.op = "get_banned_users" =>
        \A u \in Users :
            Cardinality({i \in DOMAIN lastOp.result :
                            lastOp.result[i].user_uuid = u})
                = IF is_banned(banned_users, u) THEN 1 ELSE 0

\* u1, banned without a reason, was banned again a second later with the
\* reason "spam": the registry holds the second ban only and
\* get_banned_users has returned that one record.
C20_Witness ==
    /\ LastCallBans("u1")
    /\ ban_calls["u1"][1].over =
            {[user_uuid |-> "u1", banned_at |-> StartSecond, reason |-> None]}
    /\ ban_calls["u1"][1].reason = "spam"
    /\ IntTime(ban_calls["u1"][1].at) = StartSecond + 1
    /\ lastOp.op = "get_banned_users"
    /\ lastOp.result =
            <<[user_uuid |-> "u1", banned_at |-> StartSecond + 1, reason |-> "spam"]>>

\* ---- the admin's mutations, repeated
AdminMutations == {"ban_user", "unban_user", "purge_key", "purge_all"}

\* The step is a call of an admin mutation with the arguments of the call
\* before it, no other call having been made in between.
RepeatsCall ==
    /\ lastOp.op \in AdminMutations
    /\ lastOp'.op = lastOp.op
    /\ lastOp'.arg = lastOp.arg
    /\ lastOp'.at # lastOp.at
    /\ clock' = clock

\* C21 as stated: the repeated call of ban_user, unban_user, purge_key or
\* purge_all leaves the cache rows, the ban records (with banned_at and
\* reason) and the ledger exactly as the first call left them.
C21_RepeatLeavesStore ==
    [][RepeatsCall =>
        /\ card_cache' = card_cache
        /\ banned_users' = banned_users
        /\ usage_log' = usage_log]_vars

\* C21: the repeated call of unban_user, purge_key or purge_all leaves the
\* cache rows, the ban records and the ledger exactly as the first call left
\* them; the repeated ban_user(u, reason) leaves the cache, the ledger, the
\* records of the other users and the reason of u as they were, and sets
\* banned_at of u to the second of the repeated call.
C21_RepeatLeavesStoreButBannedAt ==
    [][RepeatsCall =>
        /\ card_cache' = card_cache
        /\ usage_log' = usage_log
        /\ IF lastOp.op = "ban_user"
           THEN banned_users' =
                    {r \in banned_users : r.user_uuid # lastOp.arg.user_uuid}
                    \cup {[user_uuid |-> lastOp.arg.user_uuid,
                           banned_at |-> IntTime(clock),
                           reason |-> lastOp.arg.reason]}
           ELSE banned_users' = banned_users]_vars

\* With a cached card and a recorded lookup in the store and u2 banned, u1
\* was banned for "spam" and banned again for "spam" a second later: the
\* record of u1 holds the later second.
C21_Witness ==
    /\ card_cache # {}
    /\ usage_log # {}
    /\ is_banned(banned_users, "u2")
    /\ lastOp.op = "ban_user"
    /\ lastOp.arg = [user_uuid |-> "u1", reason |-> "spam"]
    /\ LastCallBans("u1")
    /\ ban_calls["u1"][1].at = lastOp.at
    /\ ban_calls["u1"][1].over =
            {[user_uuid |-> "u1", banned_at |-> IntTime(lastOp.at) - 1,
              reason |-> "spam"]}
    /\ BanRecords("u1") =
            {[user_uuid |-> "u1", banned_at |-> IntTime(lastOp.at),
              reason |-> "spam"]}

\* ---- the purges of the cache
\* C22: purge_all deletes every row, stale or not, and returns how many rows
\* were stored; the call that follows it finds nothing: get_cache_stats
\* counts 0 entries, search_cache returns nothing and get_cached returns
\* absent, whatever the key.
C22_PurgeAllEmpties ==
    [][/\ Calls("purge_all") =>
            /\ card_cache' = {}
            /\ lastOp'.result = Cardinality(card_cache)
       /\ lastOp.op = "purge_all" =>
            /\ lastOp'.op = "get_cache_stats" => lastOp'.result.total_entries = 0
            /\ lastOp'.op = "search_cache" => lastOp'.result = {}
            /\ lastOp'.op = "get_cached" => lastOp'.result = Absent]_vars

\* purge_all has deleted the rows of all the keys, more than a TTL after the
\* store was set up, and returned their number.
C22_Witness ==
    /\ lastOp.op = "purge_all"
    /\ lastOp.result = Cardinality(Keys)
    /\ lastOp.at = clock
    /\ clock - Seconds(StartSecond) > Seconds(CACHE_TTL_SECONDS)
    /\ card_cache = {}

\* C23: purge_key(k) returns normally whether k has a row or not; it removes
\* the row of k and leaves the row of every other key as it was, and a
\* get_cached(k) that follows it returns absent.
C23_PurgeKeyFrame ==
    [][/\ Calls("purge_key") =>
            /\ lastOp'.result = None
            /\ card_cache' = {r \in card_cache : r.cache_key # lastOp'.arg}
       /\ (/\ lastOp.op = "purge_key"
           /\ lastOp'.op = "get_cached"
           /\ lastOp'.arg = lastOp.arg) => lastOp'.result = Absent]_vars

\* purge_key has been called for a key while the other key's row is stored:
\* that row is still there and the purged key has none.
C23_Witness ==
    /\ lastOp.op = "purge_key"
    /\ lastOp.arg = KeyBolt
    /\ lastOp.at = clock
    /\ written[KeyBear] # Absent
    /\ card_cache = {CacheRow(KeyBear, written[KeyBear][1].data,
                               written[KeyBear][1].at)}

\* ---- the search of the cache
\* The string s occurs in the string key, character for character.
Contains(key, s) ==
    \E i \in 1..(Len(key) - Len(s) + 1) : SubSeq(key, i, i + Len(s) - 1) = s

\* C24: search_cache(s) returns at most 100 entries, each the key and
\* cached_at of a stored row whose key contains s as a substring, and when it
\* returns fewer than 100 every stored row whose key contains s is among
\* them.
C24_SearchBySubstring ==
    lastOp.op = "search_cache" =>
        /\ Cardinality(lastOp.result) <= SEARCH_LIMIT
        /\ \A e \in lastOp.result :
                /\ \E r \in card_cache :
                        r.cache_key = e.cache_key /\ r.cached_at = e.cached_at
                /\ Contains(e.cache_key, lastOp.arg)
        /\ Cardinality(lastOp.result) < SEARCH_LIMIT =>
                \A r \in card_cache :
                    Contains(r.cache_key, lastOp.arg) =>
                        \E e \in lastOp.result : e.cache_key = r.cache_key

\* ---- the contact of a suspicious user
\* The user's events in the window of a get_suspicious_users call made at t.
WindowEvents(u, window_seconds, t) ==
    {r \in usage_log :
        r.user_uuid = u /\ r.timestamp >= IntTime(t) - window_seconds}

\* The latest of a non-empty set of events: the last second, the last id.
MostRecent(rows) == CHOOSE r \in rows : \A q \in rows : q.id <= r.id

\* C25: each entry of get_suspicious_users carries as user_phone the
\* user_phone recorded on the user's most recent event in the window.
C25_ContactOfMostRecentEvent ==
    lastOp.op = "get_suspicious_users" =>
        \A i \in DOMAIN lastOp.result :
            lastOp.result[i].user_phone =
                MostRecent(WindowEvents(lastOp.result[i].user_uuid,
                                        lastOp.arg.window_seconds,
                                        lastOp.at)).user_phone

\* ---- the periodic sweep
\* The key has a stored row older than the TTL.
StaleStored(k) ==
    \E r \in card_cache :
        r.cache_key = k /\ IntTime(clock) - r.cached_at > CACHE_TTL_SECONDS

\* C26: a purge that raises does not end the sweep: the exception is caught
\* with the store as it was, and the task sleeps an interval and purges
\* again; and, the purge succeeding in the end, every row older than the TTL
\* is eventually no longer stored.
C26_SweepSurvivesAndPurges ==
    /\ [](sweep \in {"sleep", "purge", "except"})
    /\ [][/\ (sweep = "purge" /\ sweep' # "sleep") =>
                (sweep' = "except" /\ card_cache' = card_cache /\ clock' = clock)
          /\ sweep = "except" =>
                (sweep' = "sleep" /\ card_cache' = card_cache /\ clock' = clock)
          /\ sweep = "sleep" => sweep' = "purge"]_sweep
    /\ \A k \in Keys : StaleStored(k) ~> ~StaleStored(k)

\* A purge has raised with a row older than the TTL in the store, more than
\* an interval after the row went stale: the handler runs and the row is
\* still there.
C26_Witness ==
    /\ sweep = "except"
    /\ StaleStored(KeyBolt)
    /\ written[KeyBolt] # Absent
    /\ IntTime(clock) - IntTime(written[KeyBolt][1].at)
            > CACHE_TTL_SECONDS + PURGE_INTERVAL

\* ---- the admin login
\* C27: a code issued by request_code is accepted by verify_code at most
\* once, and not later than TOTP_EXPIRY seconds after it was issued; a code
\* is not pending after a verify_code of it, accepted or not; a code that was
\* not issued is rejected.
C27_CodeOnceAndInTime ==
    /\ \A c \in Codes :
            code_calls[c] # Absent => code_calls[c][1].accepted <= 1
    /\ lastOp.op = "verify_code" =>
        /\ lastOp.result =>
                /\ lastOp.arg \in Codes
                /\ code_calls[lastOp.arg] # Absent
                /\ lastOp.at - code_calls[lastOp.arg][1].at
                        <= Seconds(TOTP_EXPIRY)
        /\ lastOp.arg \in Codes => pending_codes[lastOp.arg] = Absent

\* A code has been accepted exactly TOTP_EXPIRY seconds after it was issued,
\* and is pending no more.
C27_Witness ==
    /\ lastOp.op = "verify_code"
    /\ lastOp.result = TRUE
    /\ code_calls[lastOp.arg][1].accepted = 1
    /\ lastOp.at - code_calls[lastOp.arg][1].at = Seconds(TOTP_EXPIRY)
    /\ pending_codes[lastOp.arg] = Absent

\* C28: login_submit returns, and with the same answer, whatever number was
\* submitted and whether or not the code could be delivered; only a number
\* that is the owner's makes a code pending (for TOTP_EXPIRY seconds) and
\* has a message sent.
C28_LoginAnswerTellsNothing ==
    [][Calls("login_submit") =>
        /\ lastOp'.result = VerifyPage
        /\ IF IsOwner(lastOp'.arg, owner_phone)
           THEN \E c \in Codes :
                    /\ pending_codes'[c] =
                            Some([phone |-> owner_phone,
                                  expires |-> clock + Seconds(TOTP_EXPIRY)])
                    /\ code_calls'[c] # Absent
                    /\ code_calls'[c][1].at = clock
           ELSE pending_codes' = pending_codes /\ code_calls' = code_calls]_vars

\* A number that is not the owner's has been submitted and answered, while
\* a code requested with the owner's number, whose message could not be
\* delivered, is pending.
C28_Witness ==
    /\ lastOp.op = "login_submit"
    /\ lastOp.arg = <<"+61400000009">>
    /\ lastOp.result = VerifyPage
    /\ \E c \in Codes :
            /\ pending_codes[c] # Absent
            /\ code_calls[c] # Absent
            /\ ~code_calls[c][1].delivered

\* ---- the dot shorthand
\* C29: parse_queries returns exactly one query, made of the text after the
\* leading dot, when the stripped text starts with "." and has more than one
\* character; the text "." alone yields nothing, and a text whose stripped
\* form does not start with "." yields the queries of its [[ ]] and no
\* other, wherever it has dots (nothing when it has no [[ ]]).
C29_DotShorthand ==
    lastOp.op = "parse_queries" =>
        LET text == lastOp.arg
            s == Strip(text)
            q == lastOp.result
        IN IF s # <<>> /\ s[1] = "."
           THEN IF Len(s) > 1
                THEN /\ Len(q) = 1
                     /\ q[1] = ParseSingleText(Strip(Tail(s)))
                ELSE q = <<>>
           ELSE /\ Len(q) = Len(CardMatches(text, 1))
                /\ \A i \in DOMAIN q : q[i].raw = Strip(CardMatches(text, 1)[i])
                /\ (\A i \in DOMAIN text : text[i] # "[") => q = <<>>

\* " .a" has given the one query a.
C29_Witness ==
    /\ lastOp.op = "parse_queries"
    /\ lastOp.arg = <<" ", ".", "a">>
    /\ Len(lastOp.result) = 1
    /\ lastOp.result[1].raw = <<"a">>
    /\ lastOp.result[1].name = <<"a">>
    /\ lastOp.result[1].flag = None

\* ---- C30
DELETE_EMOJIS == {"wastebasket", "cross_mark"}

\* The reaction asks for a delete: a delete emoji, on a message of the bot,
\* not taken back.
AsksDelete(m) ==
    /\ m.emoji \in DELETE_EMOJIS
    /\ m.targetAuthor = BotPhone
    /\ ~m.isRemove

\* C30: every reaction handled that asks for a delete caused exactly one
\* remote delete, of the target's sent timestamp, and no reply; every other
\* reaction handled caused no remote delete.
C30_DeleteReactionDeletes ==
    \A i \in DOMAIN reactions :
        IF AsksDelete(reactions[i].message)
        THEN /\ reactions[i].remote_delete =
                    <<reactions[i].message.targetSentTimestamp>>
             /\ reactions[i].sent = 0
        ELSE reactions[i].remote_delete = <<>>

\* ---- C31
\* A message for the query j of the task's message has been sent to its user.
Answered(w, j) ==
    \E n \in DOMAIN replies :
        /\ replies[n].to = task[w].user_uuid
        /\ replies[n].query = task[w].queries[j].raw
        /\ replies[n].kind \in {"result", "not_found", "failed"}

\* C31: the queries of one message are handled one after the other in the
\* order of the text.  A task works through its list by index, one up at a
\* time, the list unchanged; it reaches the lookup of a later query only out
\* of the pacing sleep, which it enters once the query before has its reply
\* or failure message; and a row it appends to the ledger is for the query
\* it is at and gets an id above every id there is.
C31_QueriesInOrderPaced ==
    [][\A w \in Workers :
        /\ (task[w].pc # "idle" /\ task'[w].pc # "idle") =>
                /\ task'[w].queries = task[w].queries
                /\ task'[w].i \in {task[w].i, task[w].i + 1}
        /\ (task'[w].i # task[w].i /\ task'[w].i >= 2) =>
                /\ task'[w].pc = "pace"
                /\ task[w].sent >= 1 \/ replies' # replies
        /\ task[w].pc = "pace" =>
                /\ task[w].i >= 2
                /\ Answered(w, task[w].i - 1)
        /\ (task'[w].pc = "get" /\ task[w].pc # "get") =>
                \/ task[w].pc = "ban_check" /\ task'[w].i = 1
                \/ task[w].pc = "pace" /\ task'[w].i = task[w].i
        /\ (task[w].pc = "log" /\ task'[w] # task[w]) =>
                \E r \in usage_log' :
                    /\ usage_log' = usage_log \cup {r}
                    /\ r.query = Query(w).raw
                    /\ r.user_uuid = task[w].user_uuid
                    /\ \A o \in usage_log : o.id < r.id
    ]_vars

\* A message with the two queries, in this order, of Bolt and of Bear has
\* been handled: the replies are Bolt's card and then Bear's, and the ledger
\* got Bolt's row and after it, as the last row, Bear's.
C31_Witness ==
    /\ \A w \in Workers : task[w].pc = "idle"
    /\ Len(replies) = 2
    /\ replies[1].kind = "result" /\ replies[1].query = NameBolt
    /\ replies[2].kind = "result" /\ replies[2].query = NameBear
    /\ \E r1, r2 \in usage_log :
            /\ r1.query = NameBolt /\ r2.query = NameBear
            /\ r2.id = r1.id + 1 /\ r2.id = usage_seq

\* ---- C32
\* The row the task's log_usage appended for the query it is at.
RowOfQuery(w) ==
    {r \in usage_log : /\ r.id = task[w].row_id
                       /\ r.user_uuid = task[w].user_uuid
                       /\ r.query = Query(w).raw}

\* C32: for each query the reply comes first, then the usage event, then the
\* alert evaluation.  A task comes to log_usage only by the step that sends
\* the card of the query; it comes to check_and_alert only by the step that
\* appends the query's row; while check_and_alert runs the reply is sent and
\* the row is in the ledger; a lookup that failed, or whose row could not be
\* written, goes to the failure message and never to check_and_alert; and
\* only check_and_alert past its count touches the cooldowns and notifies.
C32_ReplyThenRowThenAlert ==
    [][\A w \in Workers :
        /\ (task'[w].pc = "log" /\ task[w].pc # "log") =>
                /\ task[w].pc = "send"
                /\ replies' = Append(replies, Reply(w, "result"))
        /\ (task'[w].pc = "alert" /\ task[w].pc # "alert") =>
                /\ task[w].pc = "log"
                /\ task[w].sent >= 1
                /\ \E r \in usage_log' \ usage_log :
                        /\ r.id = task'[w].row_id
                        /\ r.query = Query(w).raw
        /\ (task'[w].pc = "count" /\ task[w].pc # "count") => task[w].pc = "alert"
        /\ task[w].pc \in {"alert", "count"} =>
                /\ task[w].sent >= 1
                /\ Answered(w, task[w].i)
                /\ RowOfQuery(w) # {}
        /\ (task[w].pc \in {"fetch", "scryfall_error", "exception"}) =>
                task'[w].pc \notin {"log", "alert", "count"}
        /\ (task[w].pc = "log" /\ usage_log' = usage_log) =>
                task'[w].pc \notin {"alert", "count"}
        /\ (notifications' # notifications \/ alert_cooldowns' # alert_cooldowns) =>
                \E v \in Workers : task[v].pc = "count" /\ task'[v] # task[v]
    ]_vars

\* check_and_alert is counting the lookups of a user whose query has its
\* card sent and its row in the ledger.
C32_Witness ==
    \E w \in Workers :
        /\ task[w].pc = "count"
        /\ task[w].sent = 1
        /\ Answered(w, task[w].i)
        /\ RowOfQuery(w) # {}
        /\ replies[Len(replies)].kind = "result"

\* ---- C33
\* C33: however lookups of one key interleave, the cache holds at most one
\* row for the key, and once the key was written it holds exactly the row of
\* the last set_cached committed: its value, and its second as cachedAt; a
\* task that has its answer writes it whatever row is there; and no task
\* waits for another: its cache read, its request and its cache write can
\* each be taken whenever the task is at them, wherever the other task is.
C33_LastWriteWinsNoLock ==
    /\ [](\A k \in Keys :
            /\ Cardinality(RowsOf(k)) <= 1
            /\ written[k] # Absent =>
                    RowsOf(k) = {CacheRow(k, written[k][1].data, written[k][1].at)})
    /\ [](\A w \in Workers :
            /\ task[w].pc = "get" => ENABLED CacheGet(w)
            /\ task[w].pc = "fetch" => ENABLED Fetch(w)
            /\ task[w].pc = "set" => ENABLED CacheSet(w))
    /\ [][\A w \in Workers :
            (task[w].pc = "set" /\ task'[w] # task[w]) =>
                /\ card_cache' = {r \in card_cache : r.cache_key # QueryKey(w)}
                        \cup {CacheRow(QueryKey(w), task[w].data[1], clock)}
                /\ written'[QueryKey(w)] =
                        Some([data |-> task[w].data[1], at |-> clock,
                              over |-> RowsOf(QueryKey(w)) # {}])
       ]_vars

\* Two tasks looked up Bolt at once: both read a miss, both asked the
\* resolver, and both wrote; the second write came a second after the first
\* and replaced its row, and the cache holds the one row of the second.
C33_Witness ==
    /\ \A w \in Workers : task[w].pc \in {"send", "log"} /\ QueryKey(w) = KeyBolt
    /\ written[KeyBolt] # Absent
    /\ written[KeyBolt][1].over
    /\ written[KeyBolt][1].at = Seconds(StartSecond + 1)
    /\ RowsOf(KeyBolt) = {CacheRow(KeyBolt, CardBolt, Seconds(StartSecond + 1))}

\* ---- C34
\* The registry is read once per message, before the first query: a task
\* takes up its first query only by the step of the ban check, which it
\* reaches only from idle, and never comes back to the check within the
\* message.
GateOnce(w) ==
    /\ (task'[w].i = 1 /\ task[w].i # 1) =>
            /\ task[w].pc = "ban_check"
            /\ ~is_banned(banned_users, task[w].user_uuid)
    /\ (task'[w].pc = "ban_check" /\ task[w].pc # "ban_check") =>
            task[w].pc = "idle"

\* A ban committed while a message is under way stops none of its queries:
\* the step of the ban leaves every task where it is, and a task past the
\* check ends only after its last query, each query answered, and each one
\* whose card was sent recorded, banned or not.
InFlightGoesOn(w) ==
    /\ banned_users' # banned_users => task' = task
    /\ (task[w].i >= 1 /\ task'[w].pc = "idle") =>
            task[w].i = Len(task[w].queries)
    /\ (LeavesQuery(w) /\ is_banned(banned_users, task[w].user_uuid)) =>
            task[w].sent >= 1 \/ replies' # replies
    /\ (task[w].pc = "log" /\ task'[w] # task[w]) =>
            \E r \in usage_log' \ usage_log :
                r.user_uuid = task[w].user_uuid /\ r.query = Query(w).raw

\* A message that arrived when its sender was banned is blocked: a reply
\* sent, or a row logged, is never for such a message.
ArrivedBannedBlocked ==
    /\ replies' # replies => ~replies'[Len(replies')].banned_on_arrival
    /\ logged' # logged => ~logged'[Len(logged')].banned_on_arrival

\* The same for the messages that carry card queries.
ArrivedBannedLookupBlocked ==
    /\ replies' # replies =>
            \/ replies'[Len(replies')].kind = "help"
            \/ ~replies'[Len(replies')].banned_on_arrival
    /\ logged' # logged => ~logged'[Len(logged')].banned_on_arrival

\* C34: the ban registry is consulted exactly once per message, before its
\* first query; a ban committed after the check does not stop the remaining
\* queries of the message under way; every message that arrives after the
\* ban is committed is blocked.
C34_BanGateOncePerMessage ==
    [][/\ \A w \in Workers : GateOnce(w) /\ InFlightGoesOn(w)
       /\ ArrivedBannedBlocked]_vars

\* What holds of the ban gate: all of the above for the messages with card
\* queries; "/help" is answered whoever sends it.
BanGateOnLookups ==
    [][/\ \A w \in Workers : GateOnce(w) /\ InFlightGoesOn(w)
       /\ ArrivedBannedLookupBlocked]_vars

\* A lookup was recorded for a user banned by then, in a message that had
\* passed the check before the ban.
BannedInFlightRecorded ==
    \E i \in DOMAIN logged :
        /\ ~logged[i].banned_on_arrival
        /\ is_banned(banned_users, logged[i].user_uuid)
        /\ \E b \in banned_users :
                b.user_uuid = logged[i].user_uuid /\ Seconds(b.banned_at) <= logged[i].at

\* ---- C35
\* C35: a notification that is due sets lastAlertTime[u] before its delivery
\* is attempted, delivered or not -- every notification attempted has the
\* cooldown of its user at or after its own reading of the clock -- and after
\* an attempt that failed no notification about u is attempted before
\* ALERT_COOLDOWN seconds have passed since that reading.
C35_FailedDeliveryStartsCooldown ==
    /\ \A i \in DOMAIN notifications :
            /\ notifications[i].user_uuid \in DOMAIN alert_cooldowns
            /\ alert_cooldowns[notifications[i].user_uuid] >= notifications[i].now
    /\ \A i, j \in DOMAIN notifications :
            (/\ i < j
             /\ notifications[i].user_uuid = notifications[j].user_uuid
             /\ ~notifications[i].delivered) =>
                notifications[j].at - notifications[i].now >= Seconds(ALERT_COOLDOWN)

\* ---- C36
\* The events of u in the ledger log within the window that ends at clock.
CountNow(log, u) == get_user_lookup_count(log, u, SUSPICIOUS_WINDOW, clock)

\* A notification about u was emitted at this reading of the clock.
NotifiedNow(ns, u) ==
    \E n \in DOMAIN ns : ns[n].user_uuid = u /\ ns[n].at = clock

\* C36: with the monitor configured, the step that records a lookup hands the
\* task to check_and_alert; the evaluation goes on to the count unless u is
\* in cooldown; the count, at SUSPICIOUS_THRESHOLD or above, emits the
\* notification in the step that ends the evaluation, so before the next
\* query is started; and a task that leaves the evaluation of a lookup with
\* u at the threshold leaves either a notification about u from this
\* handling or a cooldown that had not elapsed.  Without an owner number no
\* notification is ever emitted, and the lookups are recorded all the same.
C36_DueAlertWithinLookup ==
    [][\A w \in Workers :
        LET u == task[w].user_uuid IN
        /\ (task[w].pc = "log" /\ task'[w] # task[w]) =>
                /\ usage_log' # usage_log
                /\ owner_phone # "" => task'[w].pc = "alert"
                /\ owner_phone = "" => task'[w].pc \notin {"alert", "count"}
        /\ (task[w].pc = "alert" /\ task'[w] # task[w]) =>
                (~in_cooldown(alert_cooldowns, u, clock) <=> task'[w].pc = "count")
        /\ (task[w].pc = "count" /\ task'[w] # task[w]
                /\ CountNow(usage_log, u) >= SUSPICIOUS_THRESHOLD) =>
                /\ Len(notifications') = Len(notifications) + 1
                /\ notifications'[Len(notifications')].user_uuid = u
                /\ notifications'[Len(notifications')].to = owner_phone
                /\ LeavesQuery(w)
        /\ (task[w].pc \in {"alert", "count"} /\ LeavesQuery(w)
                /\ CountNow(usage_log, u) >= SUSPICIOUS_THRESHOLD) =>
                \/ NotifiedNow(notifications', u)
                \/ /\ in_cooldown(alert_cooldowns, u, clock)
                   /\ alert_cooldowns' = alert_cooldowns
        /\ owner_phone = "" => notifications' = <<>>
    ]_vars

\* The lookup that brought u1 to SUSPICIOUS_THRESHOLD events in the window
\* was recorded with the monitor configured and the cooldown elapsed, and
\* the notification about u1 with that count is out while the message is
\* still the last one handled.
C36_Witness ==
    /\ owner_phone = OwnerPhone
    /\ Len(notifications) = 1
    /\ notifications[1].user_uuid = "u1"
    /\ notifications[1].count = SUSPICIOUS_THRESHOLD
    /\ notifications[1].at = clock
    /\ notifications[1].delivered
    /\ CountNow(usage_log, "u1") = SUSPICIOUS_THRESHOLD
    /\ Len(logged) = 1

\* The same lookup with no owner number set: recorded, u1 at the threshold,
\* and no notification.
C36_WitnessUnconfigured ==
    /\ owner_phone = ""
    /\ notifications = <<>>
    /\ CountNow(usage_log, "u1") >= SUSPICIOUS_THRESHOLD
    /\ Len(logged) >= 1
    /\ \A w \in Workers : task[w].pc = "idle"

\* ---- C37
\* The task is handling a message of a sender without a uuid.
Anonymous(w) == task[w].pc # "idle" /\ task[w].user_phone \in AnonymousNumbers

\* The events of the user id "unknown" in the window that ends at clock.
UnknownEvents ==
    {r \in usage_log : /\ r.user_uuid = "unknown"
                       /\ r.timestamp >= IntTime(clock) - SUSPICIOUS_WINDOW}

\* C37: a message without a sender uuid is handled for the user id
\* "unknown", whoever sent it.  Its rows are rows of "unknown"; once
\* "unknown" is banned the ban check ends the message of every such sender;
\* the count compared with the threshold is the number of events of
\* "unknown" from all of them; and one cooldown, that of "unknown", ends the
\* evaluation for each of them.
C37_UnknownSharesOneIdentity ==
    [][\A w \in Workers :
        /\ Anonymous(w) => task[w].user_uuid = "unknown"
        /\ \A r \in usage_log' :
                r.user_phone \in AnonymousNumbers => r.user_uuid = "unknown"
        /\ DOMAIN alert_cooldowns \subseteq {"unknown", "u1"}
        /\ (Anonymous(w) /\ task[w].pc = "ban_check" /\ task'[w] # task[w]
                /\ is_banned(banned_users, "unknown")) =>
                /\ task'[w].pc = "idle"
                /\ replies' = replies /\ usage_log' = usage_log
        /\ (Anonymous(w) /\ task[w].pc = "log" /\ task'[w] # task[w]) =>
                \E r \in usage_log' \ usage_log :
                    r.user_uuid = "unknown" /\ r.user_phone = task[w].user_phone
        /\ (Anonymous(w) /\ task[w].pc = "alert" /\ task'[w] # task[w]) =>
                (task'[w].pc = "count" <=>
                    clock - LastAlert(alert_cooldowns, "unknown")
                        >= Seconds(ALERT_COOLDOWN))
        /\ (Anonymous(w) /\ task[w].pc = "count" /\ task'[w] # task[w]) =>
                IF Cardinality(UnknownEvents) >= SUSPICIOUS_THRESHOLD
                THEN /\ notifications' = Append(notifications,
                            [to |-> owner_phone, user_uuid |-> "unknown",
                             count |-> Cardinality(UnknownEvents),
                             now |-> task[w].now, at |-> clock,
                             delivered |-> TRUE])
                     /\ alert_cooldowns' =
                            SetLastAlert(alert_cooldowns, "unknown", task[w].now)
                ELSE notifications' = notifications
    ]_vars

\* Two senders without a uuid, one with a number and one without, looked up
\* one card each: the two rows are rows of "unknown", they brought its count
\* from two short of the threshold to the threshold, and the owner was told
\* about "unknown" with that count.
C37_Witness ==
    /\ \E r1, r2 \in usage_log :
            /\ r1.id > SUSPICIOUS_THRESHOLD - 2 /\ r2.id > SUSPICIOUS_THRESHOLD - 2
            /\ r1.user_uuid = "unknown" /\ r2.user_uuid = "unknown"
            /\ r1.user_phone = None /\ r2.user_phone = "+61400000002"
    /\ \E n \in DOMAIN notifications :
            /\ notifications[n].user_uuid = "unknown"
            /\ notifications[n].count = SUSPICIOUS_THRESHOLD
    /\ "unknown" \in DOMAIN alert_cooldowns

\* "unknown" was banned and two messages arrived after that: none was
\* answered, none recorded.
C37_WitnessBanned ==
    /\ is_banned(banned_users, "unknown")
    /\ received = 2
    /\ \A w \in Workers : task[w].pc = "idle"
    /\ replies = <<>>
    /\ usage_log = UnknownBacklog

====
